---- MODULE Spec2Model ----
(***************************************************************************)
(* Evaluation-and-feedback core of the Prompt Trainer backend.             *)
(*                                                                         *)
(* The store is the relational database behind the FastAPI handlers of     *)
(* backend/app/api.  Every handler runs in one request-scoped session      *)
(* (core/database.py get_db): what it wrote is visible to later requests   *)
(* only if the handler reached db.commit(); an exception raised before     *)
(* that closes the session and discards the pending writes.  One action    *)
(* below is one whole request.                                             *)
(*                                                                         *)
(* Encodings.  An Optional value is a set with at most one element         *)
(* (None is {}, a present value x is {x}).  A text is a sequence of        *)
(* one-character strings, so that strip(), lower(), int() and str() are    *)
(* computed and not assumed.  A prompt template is a sequence of tokens.   *)
(* Primary keys follow SQLite's INTEGER PRIMARY KEY rule: the new id is    *)
(* one more than the largest id in the table.                              *)
(*                                                                         *)
(* The rows of the tables carry the columns the handlers read and write.   *)
(* For two tables these are more than models/database.py declares:         *)
(* feedback entries have a rubric_id and a nullable criterion_id, criteria *)
(* have min_score and max_score (see FeedbackEntry and Criterion below).   *)
(***************************************************************************)
EXTENDS Integers, Sequences, FiniteSets, TLC

VARIABLES papers, rubrics, criteria, prompts, evaluations, feedback, last

vars == <<papers, rubrics, criteria, prompts, evaluations, feedback, last>>

store == <<papers, rubrics, criteria, prompts, evaluations, feedback>>

(***************************************************************************)
(* Bounds of the model.                                                    *)
(***************************************************************************)
MaxPrompts == 3

MaxEvals == 1

MaxReviewed == 2

MaxFeedback == 2

(***************************************************************************)
(* Optional values.                                                        *)
(***************************************************************************)
None == {}

Some(x) == {x}

Get(o) == CHOOSE x \in o : TRUE

MaxOf(S) == CHOOSE x \in S : \A y \in S : y <= x

MinOf(S) == CHOOSE x \in S : \A y \in S : x <= y

\* SQLite rowid allocation for Column(Integer, primary_key=True).
NewId(table) == IF DOMAIN table = {} THEN 1 ELSE MaxOf(DOMAIN table) + 1

Put(table, id, row) == [i \in DOMAIN table \cup {id} |-> IF i = id THEN row ELSE table[i]]

(***************************************************************************)
(* Texts: str.strip(), str.lower(), int(), str().                          *)
(***************************************************************************)
Digits == <<"0", "1", "2", "3", "4", "5", "6", "7", "8", "9">>

IsSpace(c) == c = " "

IsDigit(c) == \E i \in 1..10 : Digits[i] = c

DigitValue(c) == (CHOOSE i \in 1..10 : Digits[i] = c) - 1

LowerChar(c) ==
    CASE c = "Y" -> "y"
      [] c = "E" -> "e"
      [] c = "S" -> "s"
      [] c = "N" -> "n"
      [] c = "O" -> "o"
      [] c = "M" -> "m"
      [] c = "T" -> "t"
      [] c = "D" -> "d"
      [] OTHER -> c

Lower(s) == [i \in 1..Len(s) |-> LowerChar(s[i])]

RECURSIVE LStrip(_)
LStrip(s) == IF s # <<>> /\ IsSpace(Head(s)) THEN LStrip(Tail(s)) ELSE s

RECURSIVE RStrip(_)
RStrip(s) ==
    IF s # <<>> /\ IsSpace(s[Len(s)]) THEN RStrip(SubSeq(s, 1, Len(s) - 1)) ELSE s

Strip(s) == RStrip(LStrip(s))

\* int() of a stripped text: an optional sign followed by one or more digits (the
\* texts of the model hold spaces, signs, digits, letters and dots, no underscore).
HasSign(s) == s # <<>> /\ Head(s) \in {"+", "-"}

Unsigned(s) == IF HasSign(s) THEN Tail(s) ELSE s

IsIntLiteral(s) ==
    /\ Unsigned(s) # <<>>
    /\ \A i \in 1..Len(Unsigned(s)) : IsDigit(Unsigned(s)[i])

RECURSIVE NatValue(_)
NatValue(d) ==
    IF d = <<>> THEN 0
    ELSE 10 * NatValue(SubSeq(d, 1, Len(d) - 1)) + DigitValue(d[Len(d)])

IntValue(s) ==
    IF HasSign(s) /\ Head(s) = "-" THEN 0 - NatValue(Unsigned(s)) ELSE NatValue(Unsigned(s))

RECURSIVE NatStr(_)
NatStr(n) == IF n < 10 THEN <<Digits[n + 1]>> ELSE NatStr(n \div 10) \o <<Digits[(n % 10) + 1]>>

Str(n) == IF n < 0 THEN <<"-">> \o NatStr(0 - n) ELSE NatStr(n)

Yes == <<"y", "e", "s">>

No == <<"n", "o">>

Meets == <<"m", "e", "e", "t", "s">>

DoesNotMeet == <<"d", "o", "e", "s", "_", "n", "o", "t", "_", "m", "e", "e", "t">>

(***************************************************************************)
(* Results of a request, as the HTTP status the handler answers with.      *)
(***************************************************************************)
Ok == "ok"

NotFound == "NotFound"

ValidationError == "ValidationError"

BackendUnavailable == "BackendUnavailable"

\* An exception no handler translates: FastAPI answers 500.
ServerError == "ServerError"

(***************************************************************************)
(* Prompt templates.                                                       *)
(***************************************************************************)
PaperContent == "{{paper_content}}"

RubricToken == "{{rubric}}"

ScriptTag == "<script"

REQUIRED_PLACEHOLDERS == <<PaperContent, RubricToken>>

Contains(text, token) == \E i \in 1..Len(text) : text[i] = token

\* sanitize_text for a non-None value: Some(cleaned), or None when it raises 422.
sanitize_text(value, min_length, max_length) ==
    LET cleaned == Strip(value)
    IN IF Len(cleaned) < min_length \/ Len(cleaned) > max_length \/ Contains(cleaned, ScriptTag)
       THEN None
       ELSE Some(cleaned)

\* A check that is content with one of the placeholders.
ValidateAnyPlaceholder(template_text) ==
    \E i \in 1..Len(REQUIRED_PLACEHOLDERS) : Contains(template_text, REQUIRED_PLACEHOLDERS[i])

\* TRUE when _validate_placeholders returns without raising.
_validate_placeholders(template_text) ==
    \A i \in 1..Len(REQUIRED_PLACEHOLDERS) : Contains(template_text, REQUIRED_PLACEHOLDERS[i])

TemplateMinLength == 1

TemplateMaxLength == 10000

DefaultTemplate == <<"Evaluate", " ", PaperContent, " ", "using rubric", " ", RubricToken>>

\* A deactivation that updates no row.
DeactivateNone(ps, active_prompt_id) == ps

\* _ensure_single_active: query.update({"is_active": False}) on every prompt but one.
_ensure_single_active(ps, active_prompt_id) ==
    [i \in DOMAIN ps |->
        IF active_prompt_id # None /\ i = Get(active_prompt_id)
        THEN ps[i]
        ELSE [ps[i] EXCEPT !.is_active = Some(FALSE)]]

\* Query(Prompt).order_by(Prompt.version.desc()).first()
LatestVersion(ps) == MaxOf({ps[i].version : i \in DOMAIN ps})

\* get_db: the handler raised before db.commit(), the finally clause closes the session
\* and the pending (added or flushed, never committed) writes are discarded.
SessionClosed(committed, pending) == committed

Request(op, req, result, id, calls) ==
    [op |-> op, req |-> req, result |-> result, id |-> id, calls |-> calls]

create_prompt(template_text, parent_version_id, is_active) ==
    LET req == [template_text |-> template_text, parent_version_id |-> parent_version_id,
                is_active |-> is_active]
        parent_given == parent_version_id # None /\ Get(parent_version_id) # 0
        parent_missing == parent_given /\ Get(parent_version_id) \notin DOMAIN prompts
        version == IF parent_given
                   THEN prompts[Get(parent_version_id)].version + 1
                   ELSE (IF DOMAIN prompts = {} THEN 0 ELSE LatestVersion(prompts)) + 1
        cleaned == sanitize_text(template_text, TemplateMinLength, TemplateMaxLength)
        id == NewId(prompts)
        row == [version |-> version, template_text |-> Get(cleaned),
                parent_version_id |-> parent_version_id, is_active |-> Some(is_active),
                total_evaluations |-> 0]
        flushed == Put(prompts, id, row)
    IN IF parent_missing
       THEN /\ last' = Request("create_prompt", req, NotFound, None, 0)
            /\ UNCHANGED store
       ELSE IF cleaned = None \/ ~_validate_placeholders(Get(cleaned))
       THEN /\ last' = Request("create_prompt", req, ValidationError, None, 0)
            /\ UNCHANGED store
       ELSE /\ prompts' = IF is_active THEN _ensure_single_active(flushed, Some(id)) ELSE flushed
            /\ last' = Request("create_prompt", req, Ok, Some(id), 0)
            /\ UNCHANGED <<papers, rubrics, criteria, evaluations, feedback>>

\* update_data = payload.model_dump(exclude_unset=True) has a key only for the fields
\* the client sent.  A field is None when its key is absent and Some(v) when it is
\* present, v being the Optional value sent (None for an explicit JSON null).
update_prompt(prompt_id, template_text, is_active) ==
    LET req == [prompt_id |-> prompt_id, template_text |-> template_text, is_active |-> is_active]
        text_sent == template_text # None
        text_null == text_sent /\ Get(template_text) = None
        cleaned == sanitize_text(Get(Get(template_text)), TemplateMinLength, TemplateMaxLength)
        p0 == prompts[prompt_id]
        p1 == IF text_sent THEN [p0 EXCEPT !.template_text = Get(cleaned)] ELSE p0
        activating == is_active # None /\ Get(is_active) = Some(TRUE)
        ps1 == [prompts EXCEPT ![prompt_id] = p1]
        ps2 == IF activating
               THEN [_ensure_single_active(ps1, Some(prompt_id)) EXCEPT ![prompt_id].is_active = Some(TRUE)]
               ELSE IF is_active # None
               THEN [ps1 EXCEPT ![prompt_id].is_active = Get(is_active)]
               ELSE ps1
    IN IF prompt_id \notin DOMAIN prompts
       THEN /\ last' = Request("update_prompt", req, NotFound, None, 0)
            /\ UNCHANGED store
       ELSE IF text_null
       THEN \* sanitize_text(None) is None and "placeholder not in None" raises TypeError
            /\ last' = Request("update_prompt", req, ServerError, None, 0)
            /\ UNCHANGED store
       ELSE IF text_sent /\ (cleaned = None \/ ~_validate_placeholders(Get(cleaned)))
       THEN /\ last' = Request("update_prompt", req, ValidationError, None, 0)
            /\ UNCHANGED store
       ELSE /\ prompts' = ps2
            /\ last' = Request("update_prompt", req, Ok, Some(prompt_id), 0)
            /\ UNCHANGED <<papers, rubrics, criteria, evaluations, feedback>>

\* An activation that flags the prompt and deactivates no other.
ActivateOnly(prompt_id) ==
    IF prompt_id \notin DOMAIN prompts
    THEN /\ last' = Request("activate_prompt", [prompt_id |-> prompt_id], NotFound, None, 0)
         /\ UNCHANGED store
    ELSE /\ prompts' = [prompts EXCEPT ![prompt_id].is_active = Some(TRUE)]
         /\ last' = Request("activate_prompt", [prompt_id |-> prompt_id], Ok,
                            Some(prompt_id), 0)
         /\ UNCHANGED <<papers, rubrics, criteria, evaluations, feedback>>

activate_prompt(prompt_id) ==
    LET req == [prompt_id |-> prompt_id]
    IN IF prompt_id \notin DOMAIN prompts
       THEN /\ last' = Request("activate_prompt", req, NotFound, None, 0)
            /\ UNCHANGED store
       ELSE /\ prompts' = [_ensure_single_active(prompts, Some(prompt_id))
                              EXCEPT ![prompt_id].is_active = Some(TRUE)]
            /\ last' = Request("activate_prompt", req, Ok, Some(prompt_id), 0)
            /\ UNCHANGED <<papers, rubrics, criteria, evaluations, feedback>>

(***************************************************************************)
(* JSON values of a model response, and json.dumps.                        *)
(***************************************************************************)
JNull == [type |-> "null"]

JBool(b) == [type |-> "bool", value |-> b]

JNumber(n) == [type |-> "number", value |-> n]

JString(text) == [type |-> "string", value |-> text]

JArray(items) == [type |-> "array", items |-> items]

\* members: a sequence of <<key, value>> pairs.
JObject(members) == [type |-> "object", members |-> members]

\* Python truthiness, which decides "payload.model_response or adapter.evaluate(...)".
Truthy(v) ==
    CASE v.type = "null" -> FALSE
      [] v.type = "bool" -> v.value
      [] v.type = "number" -> v.value # 0
      [] v.type = "string" -> v.value # <<>>
      [] v.type = "array" -> v.items # <<>>
      [] v.type = "object" -> v.members # <<>>

RECURSIVE JoinDumps(_)
RECURSIVE DumpMembers(_)
RECURSIVE json_dumps(_)
JoinDumps(items) ==
    IF items = <<>> THEN <<>>
    ELSE json_dumps(Head(items)) \o (IF Len(items) > 1 THEN <<", ">> ELSE <<>>) \o JoinDumps(Tail(items))

DumpMembers(members) ==
    IF members = <<>> THEN <<>>
    ELSE <<"\"", Head(members)[1], "\"", ": ">> \o json_dumps(Head(members)[2])
         \o (IF Len(members) > 1 THEN <<", ">> ELSE <<>>) \o DumpMembers(Tail(members))

json_dumps(v) ==
    CASE v.type = "null" -> <<"null">>
      [] v.type = "bool" -> IF v.value THEN <<"true">> ELSE <<"false">>
      [] v.type = "number" -> Str(v.value)
      [] v.type = "string" -> <<"\"">> \o v.value \o <<"\"">>
      [] v.type = "array" -> <<"[">> \o JoinDumps(v.items) \o <<"]">>
      [] v.type = "object" -> <<"{">> \o DumpMembers(v.members) \o <<"}">>

(***************************************************************************)
(* Evaluation backend adapters (services/model_adapter.py).                *)
(***************************************************************************)
\* A dict entry: None when the key is absent, Some(v) when present, v being the
\* Optional value held (None for Python's None).
DictGet(entry, default) == IF entry = None THEN Some(default) ELSE Get(entry)

StubDefaultMin == 0

StubDefaultMax == 10

\* The score StubModelAdapter.evaluate gives one criterion: Some(score), or None when
\* "(min_score + max_score) // 2" raises TypeError on a None operand.
StubScore(scoring_type, c) ==
    IF scoring_type = "yes_no" THEN Some(JString(Yes))
    ELSE IF scoring_type = "meets_not_meets" THEN Some(JString(Meets))
    ELSE IF scoring_type = "numerical"
    THEN LET min_score == DictGet(c.min_score, StubDefaultMin)
             max_score == DictGet(c.max_score, StubDefaultMax)
         IN IF min_score = None \/ max_score = None
            THEN None
            ELSE Some(JNumber((Get(min_score) + Get(max_score)) \div 2))
    ELSE Some(JString(Yes))

StubEntry(scoring_type, c) ==
    JObject(<< <<"criterion_id", JNumber(c.id)>>,
               <<"criterion_name", JString(c.name)>>,
               <<"score", Get(StubScore(scoring_type, c))>>,
               <<"reasoning", JString(<<"Stubbed evaluation for ", scoring_type, " scoring">>)>> >>)

\* StubModelAdapter.evaluate: [status, value].
StubEvaluate(rubric) ==
    IF \E i \in 1..Len(rubric.criteria) : StubScore(rubric.scoring_type, rubric.criteria[i]) = None
    THEN [status |-> "TypeError", value |-> JNull]
    ELSE [status |-> Ok,
          value |-> JObject(<< <<"evaluations",
                       JArray([i \in 1..Len(rubric.criteria) |->
                                   StubEntry(rubric.scoring_type, rubric.criteria[i])])>> >>)]

\* What the HTTP exchange of OllamaAdapter.evaluate can come to.
OllamaOutcomes == {"ok", "transport_error", "timeout", "http_status_error", "malformed_json"}

\* OllamaAdapter.evaluate: httpx.HTTPError (transport errors, timeouts, raise_for_status)
\* is re-raised as RuntimeError; resp.json() on a body that is not JSON raises
\* json.JSONDecodeError, a ValueError, which the except clause does not catch.
OllamaEvaluate(outcome) ==
    IF outcome = "ok"
    THEN [status |-> Ok, value |-> JObject(<< <<"raw", JString(<<"t">>)>> >>)]
    ELSE IF outcome \in {"transport_error", "timeout", "http_status_error"}
    THEN [status |-> "RuntimeError", value |-> JNull]
    ELSE [status |-> "ValueError", value |-> JNull]

\* Settings: [model_provider, ollama_enabled], re-read from the environment per call.
get_adapter(provider, settings) ==
    LET chosen == IF provider # None /\ Get(provider) # "" THEN Get(provider) ELSE settings.model_provider
        use_ollama == chosen = "ollama" \/ settings.ollama_enabled
    IN IF use_ollama THEN "ollama" ELSE "stub"

AdapterEvaluate(adapter, rubric, outcome) ==
    IF adapter = "ollama" THEN OllamaEvaluate(outcome) ELSE StubEvaluate(rubric)

(***************************************************************************)
(* Evaluations (api/evaluations.py).                                       *)
(***************************************************************************)
RECURSIVE SortedIds(_)
SortedIds(S) == IF S = {} THEN <<>> ELSE <<MinOf(S)>> \o SortedIds(S \ {MinOf(S)})

\* rubric.criteria
CriteriaOf(rubric_id) == SortedIds({c \in DOMAIN criteria : criteria[c].rubric_id = rubric_id})

\* The rubric dict create_evaluation passes to the adapter: every criterion carries the
\* keys min_score and max_score, None when the column is NULL.
RubricDescriptor(rubric_id) ==
    LET ids == CriteriaOf(rubric_id)
    IN [id |-> rubric_id,
        scoring_type |-> rubrics[rubric_id].scoring_type,
        criteria |-> [i \in 1..Len(ids) |->
                         [id |-> ids[i],
                          name |-> criteria[ids[i]].name,
                          min_score |-> Some(criteria[ids[i]].min_score),
                          max_score |-> Some(criteria[ids[i]].max_score)]]]

\* A default prompt that is added inactive.
InactiveDefaultPrompt ==
    [version |-> 1, template_text |-> DefaultTemplate, parent_version_id |-> None,
     is_active |-> Some(FALSE), total_evaluations |-> 0]

DefaultPrompt ==
    [version |-> 1, template_text |-> DefaultTemplate, parent_version_id |-> None,
     is_active |-> Some(TRUE), total_evaluations |-> 0]

\* A resolution that takes the newest prompt.
_get_latest_or_create_prompt(ps) ==
    IF DOMAIN ps # {}
    THEN [id |-> MaxOf(DOMAIN ps), prompts |-> ps]
    ELSE [id |-> NewId(ps), prompts |-> Put(ps, NewId(ps), DefaultPrompt)]

\* _get_or_create_default_prompt: [id, prompts], prompts being the session's view
\* after the flush of a newly added default prompt.
_get_or_create_default_prompt(ps) ==
    IF DOMAIN ps # {}
    THEN [id |-> MinOf(DOMAIN ps), prompts |-> ps]
    ELSE [id |-> NewId(ps), prompts |-> Put(ps, NewId(ps), DefaultPrompt)]

\* A lookup that falls back to the first prompt when the id is unknown.
FindOrFirstPrompt(ps, prompt_id) ==
    IF prompt_id \in DOMAIN ps THEN Some(prompt_id)
    ELSE IF DOMAIN ps # {} THEN Some(MinOf(DOMAIN ps)) ELSE None

\* db.query(Prompt).filter(Prompt.id == payload.prompt_id).first()
FindPrompt(ps, prompt_id) == IF prompt_id \in DOMAIN ps THEN Some(prompt_id) ELSE None

create_evaluation(paper_id, rubric_id, prompt_id, model_response, settings, outcome) ==
    LET req == [paper_id |-> paper_id, rubric_id |-> rubric_id, prompt_id |-> prompt_id,
                model_response |-> model_response, settings |-> settings,
                outcome |-> outcome]
        found == IF prompt_id # None THEN FindPrompt(prompts, Get(prompt_id)) ELSE None
        resolved == IF prompt_id # None
                    THEN [id |-> Get(found), prompts |-> prompts]
                    ELSE _get_or_create_default_prompt(prompts)
        adapter == get_adapter(None, settings)
        explicit == model_response # None /\ Truthy(Get(model_response))
        answer == IF explicit
                  THEN [status |-> Ok, value |-> Get(model_response)]
                  ELSE AdapterEvaluate(adapter, RubricDescriptor(rubric_id), outcome)
        calls == IF explicit THEN 0 ELSE 1
        id == NewId(evaluations)
        row == [paper_id |-> paper_id, rubric_id |-> rubric_id, prompt_id |-> resolved.id,
                model_response |-> json_dumps(answer.value), is_correct |-> None]
    IN IF paper_id \notin papers \/ rubric_id \notin DOMAIN rubrics
          \/ (prompt_id # None /\ found = None)
       THEN /\ last' = Request("create_evaluation", req, NotFound, None, 0)
            /\ UNCHANGED store
       ELSE IF answer.status = "RuntimeError"
       THEN /\ prompts' = SessionClosed(prompts, resolved.prompts)
            /\ last' = Request("create_evaluation", req, BackendUnavailable, None, calls)
            /\ UNCHANGED <<papers, rubrics, criteria, evaluations, feedback>>
       ELSE IF answer.status # Ok
       THEN /\ prompts' = SessionClosed(prompts, resolved.prompts)
            /\ last' = Request("create_evaluation", req, ServerError, None, calls)
            /\ UNCHANGED <<papers, rubrics, criteria, evaluations, feedback>>
       ELSE /\ evaluations' = Put(evaluations, id, row)
            /\ prompts' = [resolved.prompts EXCEPT
                              ![resolved.id].total_evaluations = @ + 1]
            /\ last' = Request("create_evaluation", req, Ok, Some(id), calls)
            /\ UNCHANGED <<papers, rubrics, criteria, feedback>>

(***************************************************************************)
(* Feedback (api/evaluations.py).                                          *)
(***************************************************************************)
\* A validator that checks no bound.
ValidateWithoutBounds(scoring_type, corrected_score, criterion) ==
    IF scoring_type = "numerical"
    THEN IF IsIntLiteral(Strip(corrected_score))
         THEN Some(Str(IntValue(Strip(corrected_score)))) ELSE None
    ELSE IF Lower(Strip(corrected_score)) \in {Yes, No, Meets, DoesNotMeet}
    THEN Some(Lower(Strip(corrected_score))) ELSE None

\* A validator with one vocabulary for yes_no and meets_not_meets.
ValidateAnyVocabulary(scoring_type, corrected_score, criterion) ==
    IF scoring_type \in {"yes_no", "meets_not_meets"}
    THEN IF Lower(Strip(corrected_score)) \in {Yes, No, Meets, DoesNotMeet}
         THEN Some(Lower(Strip(corrected_score))) ELSE None
    ELSE IF IsIntLiteral(Strip(corrected_score))
            /\ (criterion = None
                  \/ ((Get(criterion).min_score = None
                         \/ IntValue(Strip(corrected_score)) >= Get(Get(criterion).min_score))
                      /\ (Get(criterion).max_score = None
                            \/ IntValue(Strip(corrected_score)) <= Get(Get(criterion).max_score))))
    THEN Some(Str(IntValue(Strip(corrected_score)))) ELSE None

\* _validate_corrected_score: Some(normalized), or None when it raises 422.
\* criterion is an Optional criterion row.
_validate_corrected_score(scoring_type, corrected_score, criterion) ==
    IF scoring_type = "yes_no"
    THEN LET normalized == Lower(Strip(corrected_score))
         IN IF normalized \notin {Yes, No} THEN None ELSE Some(normalized)
    ELSE IF scoring_type = "meets_not_meets"
    THEN LET normalized == Lower(Strip(corrected_score))
         IN IF normalized \notin {Meets, DoesNotMeet} THEN None ELSE Some(normalized)
    ELSE IF scoring_type = "numerical"
    THEN LET text == Strip(corrected_score)
             score == IntValue(text)
         IN IF ~IsIntLiteral(text) THEN None
            ELSE IF criterion # None /\ Get(criterion).min_score # None
                    /\ score < Get(Get(criterion).min_score) THEN None
            ELSE IF criterion # None /\ Get(criterion).max_score # None
                    /\ score > Get(Get(criterion).max_score) THEN None
            ELSE Some(Str(score))
    ELSE Some(Strip(corrected_score))

\* A FeedbackEntry row: its rubric_id column and its nullable criterion_id are the
\* ones the handler writes and the responses read.
FeedbackEntry(evaluation_id, rubric_id, criterion_id, model_score, user_corrected_score, user_explanation) ==
    [evaluation_id |-> evaluation_id, rubric_id |-> rubric_id,
     criterion_id |-> criterion_id, model_score |-> model_score,
     user_corrected_score |-> user_corrected_score,
     user_explanation |-> user_explanation]

\* A lookup that never finds an entry.
NoExistingFeedback(evaluation_id, criterion_id) == None

\* A lookup by evaluation alone.
AnyFeedbackOfEvaluation(evaluation_id, criterion_id) ==
    LET found == {f \in DOMAIN feedback : feedback[f].evaluation_id = evaluation_id}
    IN IF found = {} THEN None ELSE Some(MinOf(found))

\* Query(FeedbackEntry).filter(evaluation_id == ..., criterion_id == ...).first();
\* "criterion_id == None" is rendered as IS NULL.
ExistingFeedback(evaluation_id, criterion_id) ==
    LET found == {f \in DOMAIN feedback :
                     /\ feedback[f].evaluation_id = evaluation_id
                     /\ feedback[f].criterion_id = criterion_id}
    IN IF found = {} THEN None ELSE Some(MinOf(found))

\* A submission that accepts a criterion of any rubric.
FeedbackForAnyCriterion(evaluation_id, criterion_id, model_score, user_corrected_score, user_explanation) ==
    LET req == [evaluation_id |-> evaluation_id, criterion_id |-> criterion_id,
                model_score |-> model_score, user_corrected_score |-> user_corrected_score,
                user_explanation |-> user_explanation]
        rubric_id == evaluations[evaluation_id].rubric_id
        criterion == IF criterion_id = None THEN None ELSE Some(criteria[Get(criterion_id)])
        corrected_score == _validate_corrected_score(rubrics[rubric_id].scoring_type,
                                                     user_corrected_score, criterion)
        existing == ExistingFeedback(evaluation_id, criterion_id)
        id == IF existing # None THEN Get(existing) ELSE NewId(feedback)
        row == FeedbackEntry(evaluation_id, rubric_id, criterion_id, Strip(model_score),
                             Get(corrected_score), user_explanation)
    IN IF evaluation_id \notin DOMAIN evaluations \/ rubric_id \notin DOMAIN rubrics
          \/ (criterion_id # None /\ Get(criterion_id) \notin DOMAIN criteria)
       THEN /\ last' = Request("create_or_update_feedback", req, NotFound, None, 0)
            /\ UNCHANGED store
       ELSE IF corrected_score = None
       THEN /\ last' = Request("create_or_update_feedback", req, ValidationError, None, 0)
            /\ UNCHANGED store
       ELSE /\ feedback' = Put(feedback, id, row)
            /\ evaluations' = [evaluations EXCEPT ![evaluation_id].is_correct = Some(FALSE)]
            /\ last' = Request("create_or_update_feedback", req, Ok, Some(id), 0)
            /\ UNCHANGED <<papers, rubrics, criteria, prompts>>

\* A submission that flags the evaluation before it validates the corrected score.
FeedbackFlagsBeforeValidating(evaluation_id, criterion_id, model_score, user_corrected_score, user_explanation) ==
    LET req == [evaluation_id |-> evaluation_id, criterion_id |-> criterion_id,
                model_score |-> model_score, user_corrected_score |-> user_corrected_score,
                user_explanation |-> user_explanation]
        rubric_id == evaluations[evaluation_id].rubric_id
        criterion == IF criterion_id = None THEN None ELSE Some(criteria[Get(criterion_id)])
        corrected_score == _validate_corrected_score(rubrics[rubric_id].scoring_type,
                                                     user_corrected_score, criterion)
        existing == ExistingFeedback(evaluation_id, criterion_id)
        id == IF existing # None THEN Get(existing) ELSE NewId(feedback)
        row == FeedbackEntry(evaluation_id, rubric_id, criterion_id, Strip(model_score),
                             Get(corrected_score), user_explanation)
    IN IF evaluation_id \notin DOMAIN evaluations \/ rubric_id \notin DOMAIN rubrics
          \/ (criterion_id # None /\ Get(criterion_id) \notin DOMAIN criteria)
       THEN /\ last' = Request("create_or_update_feedback", req, NotFound, None, 0)
            /\ UNCHANGED store
       ELSE IF criterion_id # None /\ criteria[Get(criterion_id)].rubric_id # rubric_id
       THEN /\ last' = Request("create_or_update_feedback", req, ValidationError, None, 0)
            /\ UNCHANGED store
       ELSE IF corrected_score = None
       THEN /\ evaluations' = [evaluations EXCEPT ![evaluation_id].is_correct = Some(FALSE)]
            /\ last' = Request("create_or_update_feedback", req, ValidationError, None, 0)
            /\ UNCHANGED <<papers, rubrics, criteria, prompts, feedback>>
       ELSE /\ feedback' = Put(feedback, id, row)
            /\ evaluations' = [evaluations EXCEPT ![evaluation_id].is_correct = Some(FALSE)]
            /\ last' = Request("create_or_update_feedback", req, Ok, Some(id), 0)
            /\ UNCHANGED <<papers, rubrics, criteria, prompts>>

\* POST /{evaluation_id}/feedback
create_or_update_feedback(evaluation_id, criterion_id, model_score, user_corrected_score, user_explanation) ==
    LET req == [evaluation_id |-> evaluation_id, criterion_id |-> criterion_id,
                model_score |-> model_score, user_corrected_score |-> user_corrected_score,
                user_explanation |-> user_explanation]
        evaluation == evaluations[evaluation_id]
        rubric_id == evaluation.rubric_id
        criterion == IF criterion_id = None THEN None ELSE Some(criteria[Get(criterion_id)])
        corrected_score == _validate_corrected_score(rubrics[rubric_id].scoring_type,
                                                     user_corrected_score, criterion)
        existing == ExistingFeedback(evaluation_id, criterion_id)
        id == IF existing # None THEN Get(existing) ELSE NewId(feedback)
        row == IF existing # None
               THEN [feedback[id] EXCEPT !.model_score = Strip(model_score),
                                         !.user_corrected_score = Get(corrected_score),
                                         !.user_explanation = user_explanation]
               ELSE FeedbackEntry(evaluation_id, rubric_id, criterion_id, Strip(model_score),
                                  Get(corrected_score), user_explanation)
    IN IF evaluation_id \notin DOMAIN evaluations
       THEN /\ last' = Request("create_or_update_feedback", req, NotFound, None, 0)
            /\ UNCHANGED store
       ELSE IF rubric_id \notin DOMAIN rubrics
       THEN /\ last' = Request("create_or_update_feedback", req, NotFound, None, 0)
            /\ UNCHANGED store
       ELSE IF criterion_id # None /\ Get(criterion_id) \notin DOMAIN criteria
       THEN /\ last' = Request("create_or_update_feedback", req, NotFound, None, 0)
            /\ UNCHANGED store
       ELSE IF criterion_id # None /\ criteria[Get(criterion_id)].rubric_id # rubric_id
       THEN /\ last' = Request("create_or_update_feedback", req, ValidationError, None, 0)
            /\ UNCHANGED store
       ELSE IF corrected_score = None
       THEN /\ last' = Request("create_or_update_feedback", req, ValidationError, None, 0)
            /\ UNCHANGED store
       ELSE /\ feedback' = Put(feedback, id, row)
            /\ evaluations' = [evaluations EXCEPT ![evaluation_id].is_correct = Some(FALSE)]
            /\ last' = Request("create_or_update_feedback", req, Ok, Some(id), 0)
            /\ UNCHANGED <<papers, rubrics, criteria, prompts>>

\* A correctness update that applies only to an unreviewed evaluation.
SetCorrectnessOnce(evaluation_id, is_correct) ==
    LET req == [evaluation_id |-> evaluation_id, is_correct |-> is_correct]
    IN IF evaluation_id \notin DOMAIN evaluations
       THEN /\ last' = Request("update_feedback", req, NotFound, None, 0)
            /\ UNCHANGED store
       ELSE /\ evaluations' = IF evaluations[evaluation_id].is_correct = None
                              THEN [evaluations EXCEPT
                                       ![evaluation_id].is_correct = Some(is_correct)]
                              ELSE evaluations
            /\ last' = Request("update_feedback", req, Ok, Some(evaluation_id), 0)
            /\ UNCHANGED <<papers, rubrics, criteria, prompts, feedback>>

\* A correctness update that answers without writing.
AcknowledgeOnly(evaluation_id, is_correct) ==
    LET req == [evaluation_id |-> evaluation_id, is_correct |-> is_correct]
    IN IF evaluation_id \notin DOMAIN evaluations
       THEN /\ last' = Request("update_feedback", req, NotFound, None, 0)
            /\ UNCHANGED store
       ELSE /\ last' = Request("update_feedback", req, Ok, Some(evaluation_id), 0)
            /\ UNCHANGED store

\* PATCH /{evaluation_id}/feedback?is_correct=...
update_feedback(evaluation_id, is_correct) ==
    LET req == [evaluation_id |-> evaluation_id, is_correct |-> is_correct]
    IN IF evaluation_id \notin DOMAIN evaluations
       THEN /\ last' = Request("update_feedback", req, NotFound, None, 0)
            /\ UNCHANGED store
       ELSE /\ evaluations' = [evaluations EXCEPT ![evaluation_id].is_correct = Some(is_correct)]
            /\ last' = Request("update_feedback", req, Ok, Some(evaluation_id), 0)
            /\ UNCHANGED <<papers, rubrics, criteria, prompts, feedback>>

(***************************************************************************)
(* Requests the model draws from.                                          *)
(***************************************************************************)
Templates ==
    << <<" ", PaperContent, " ", RubricToken, " ">>,
       <<PaperContent, " ", "v2">>,
       <<ScriptTag, PaperContent, RubricToken>> >>

PromptIds == 1..(MaxPrompts + 1)

\* Settings as the environment of a request gives them.
StubSettings == [model_provider |-> "stub", ollama_enabled |-> FALSE]

OllamaSettings == [model_provider |-> "ollama", ollama_enabled |-> FALSE]

OllamaFlagSettings == [model_provider |-> "stub", ollama_enabled |-> TRUE]

\* The store the requests run against: one paper and two rubrics with a criterion
\* each, as POST /api/papers/ and POST /api/rubrics/ leave them (create_rubric stores
\* no score bounds).
SeedRubrics == [r \in {1, 2} |-> [scoring_type |-> IF r = 1 THEN "yes_no" ELSE "numerical"]]

\* A Criterion row, with the min_score and max_score columns the handlers read.
Criterion(rubric_id, name, min_score, max_score) ==
    [rubric_id |-> rubric_id, name |-> name, min_score |-> min_score, max_score |-> max_score]

SeedCriteria(min_score, max_score) ==
    [c \in {1, 2} |->
        IF c = 1 THEN Criterion(1, <<"Thesis">>, None, None)
        ELSE Criterion(2, <<"Evidence">>, min_score, max_score)]

Init ==
    /\ papers = {1}
    /\ rubrics = SeedRubrics
    /\ criteria = SeedCriteria(None, None)
    /\ prompts = <<>>
    /\ evaluations = <<>>
    /\ feedback = <<>>
    /\ last = Request("init", <<>>, Ok, None, 0)

\* The bodies of POST /api/prompts/: <<template_text, parent_version_id, is_active>>,
\* the template valid (and to be stripped), missing a placeholder or with a script
\* tag, the parent absent, existing or missing.
CreateBodies ==
    { <<Templates[1], parent, a>> : parent \in {None, Some(1)}, a \in BOOLEAN }
        \cup { <<Templates[1], Some(MaxPrompts + 1), TRUE>>,
               <<Templates[2], None, TRUE>>,
               <<Templates[3], Some(1), FALSE>> }

CreatePrompt ==
    \E body \in CreateBodies :
        /\ create_prompt(body[1], body[2], body[3])
        /\ Cardinality(DOMAIN prompts') <= MaxPrompts

\* The bodies of PUT /api/prompts/{id}: <<template_text, is_active>>.
UpdateBodies ==
    { <<None, Some(Some(TRUE))>>,
      <<None, Some(Some(FALSE))>>,
      <<Some(Some(Templates[1])), None>>,
      <<Some(Some(Templates[2])), Some(Some(TRUE))>>,
      <<Some(None), None>> }

\* The last disjunct is {"is_active": null}, sent for the first prompt.
UpdatePrompt ==
    \/ \E id \in PromptIds, body \in UpdateBodies : update_prompt(id, body[1], body[2])
    \/ update_prompt(1, None, Some(None))

ActivatePrompt == \E id \in PromptIds : activate_prompt(id)

EmptyObject == JObject(<<>>)

SuppliedResponse == JObject(<< <<"evaluations", JArray(<<>>)>> >>)

\* What POST /api/evaluations/ is sent and the backend it meets:
\* <<model_response, settings, outcome>>.
EvaluationBodies ==
    { <<None, StubSettings, "ok">>,
      <<None, OllamaSettings, "ok">>,
      <<None, OllamaFlagSettings, "timeout">>,
      <<None, OllamaSettings, "malformed_json">>,
      <<Some(EmptyObject), StubSettings, "ok">>,
      <<Some(SuppliedResponse), OllamaSettings, "timeout">> }

\* <<paper_id, rubric_id, prompt_id>> of requests whose paper and rubric exist.
EvaluationTargets ==
    { <<1, 1, p>> : p \in {None} \cup {Some(i) : i \in PromptIds} } \cup { <<1, 2, None>> }

\* Requests naming paper 2 or rubric 3, which do not exist.
MissingTargets ==
    { <<2, 1, None>>, <<2, 3, Some(MaxPrompts + 1)>>, <<1, 3, None>>, <<1, 3, Some(1)>> }

CreateEvaluation ==
    \/ \E target \in EvaluationTargets, body \in EvaluationBodies :
           /\ create_evaluation(target[1], target[2], target[3], body[1], body[2], body[3])
           /\ Cardinality(DOMAIN evaluations') <= MaxEvals
    \/ \E target \in MissingTargets :
           create_evaluation(target[1], target[2], target[3], None, OllamaSettings, "ok")

Next ==
    \/ CreatePrompt
    \/ UpdatePrompt
    \/ ActivatePrompt
    \/ CreateEvaluation

Spec == Init /\ [][Next]_vars

(***************************************************************************)
(* Reviewing evaluations: the store starts with the numerical criterion's  *)
(* bounds set (PUT /api/rubrics/{id}/criteria/{id}), evaluations are       *)
(* created with a supplied response and then given feedback.               *)
(***************************************************************************)
EvaluationIds == 1..(MaxReviewed + 1)

\* <<model_score, user_corrected_score, user_explanation>>
FeedbackBodies ==
    { <<Yes, <<" ", "N", "o">>, None>>,
      <<<<" ", "n", "o">>, Yes, Some(<<"w", "h", "y">>)>>,
      <<<<"2", " ">>, <<"0", "2">>, Some(<<"w", "h", "y">>)>>,
      <<Yes, <<"9">>, None>> }

InitFeedback ==
    /\ papers = {1}
    /\ rubrics = SeedRubrics
    /\ criteria = SeedCriteria(Some(1), Some(2))
    /\ prompts = <<>>
    /\ evaluations = <<>>
    /\ feedback = <<>>
    /\ last = Request("init", <<>>, Ok, None, 0)

RequestEvaluation ==
    \E rubric_id \in 1..3 :
        /\ create_evaluation(1, rubric_id, None, Some(SuppliedResponse), StubSettings, "ok")
        /\ Cardinality(DOMAIN evaluations') <= MaxReviewed

RecordFeedback ==
    \E evaluation_id \in EvaluationIds, criterion_id \in {None} \cup {Some(c) : c \in 1..3},
       body \in FeedbackBodies :
        /\ create_or_update_feedback(evaluation_id, criterion_id, body[1], body[2], body[3])
        /\ Cardinality(DOMAIN feedback') <= MaxFeedback

SetCorrectness ==
    \E evaluation_id \in EvaluationIds, is_correct \in BOOLEAN :
        update_feedback(evaluation_id, is_correct)

NextFeedback ==
    \/ RequestEvaluation
    \/ RecordFeedback
    \/ SetCorrectness

SpecFeedback == InitFeedback /\ [][NextFeedback]_vars

(***************************************************************************)
(* Properties of the active prompt.                                        *)
(***************************************************************************)
\* The prompts whose is_active is true (a null flag is not true).
Active(ps) == {i \in DOMAIN ps : ps[i].is_active = Some(TRUE)}

NoneActive(ps) == DOMAIN ps # {} /\ Active(ps) = {}

PromptOps == {"create_prompt", "update_prompt", "activate_prompt"}

\* The request asked for its prompt to be the active one.
Activating(r) ==
    CASE r.op = "create_prompt" -> r.req.is_active
      [] r.op = "update_prompt" -> r.req.is_active = Some(Some(TRUE))
      [] r.op = "activate_prompt" -> TRUE
      [] OTHER -> FALSE

\* C1: after any sequence of prompt creations, updates, activations and evaluation
\* creations, at most one prompt is active.
C1_AtMostOneActive == Cardinality(Active(prompts)) <= 1

\* Three prompts exist, the last request activated one that is not the first, and
\* it is the only active one.
C1_Witness ==
    /\ Cardinality(DOMAIN prompts) = MaxPrompts
    /\ last.op = "activate_prompt"
    /\ last.result = Ok
    /\ last.id # Some(1)
    /\ Cardinality(Active(prompts)) = 1

\* C2: a successful create with is_active true, update with is_active true or
\* activate leaves its prompt active and every other prompt inactive; an update or
\* activate of a prompt id that does not exist answers NotFound and changes no prompt.
C2_ActivationIsExclusive ==
    [][/\ (last'.op \in PromptOps /\ last'.result = Ok /\ Activating(last'))
            => Active(prompts') = last'.id
       /\ (last'.op \in {"update_prompt", "activate_prompt"}
              /\ last'.req.prompt_id \notin DOMAIN prompts)
            => (last'.result = NotFound /\ prompts' = prompts)]_vars

\* An update with is_active true succeeded on the third prompt while three exist.
C2_Witness ==
    /\ Cardinality(DOMAIN prompts) = MaxPrompts
    /\ last.op = "update_prompt"
    /\ last.result = Ok
    /\ Activating(last)
    /\ last.id = Some(MaxPrompts)
    /\ Active(prompts) = {MaxPrompts}

RecordedFeedback(r) == r.op = "create_or_update_feedback" /\ r.result = Ok

CorrectnessSet(r) == r.op = "update_feedback" /\ r.result = Ok

\* The entries stored for a pair of evaluation and criterion (None: overall feedback).
EntriesOf(fb, evaluation_id, criterion_id) ==
    {f \in DOMAIN fb : fb[f].evaluation_id = evaluation_id /\ fb[f].criterion_id = criterion_id}

Upserted(r, model_score) ==
    LET id == Get(r.id)
        sent == r.req
        prior == EntriesOf(feedback, sent.evaluation_id, sent.criterion_id)
        rubric_id == evaluations[sent.evaluation_id].rubric_id
        criterion == IF sent.criterion_id = None THEN None
                     ELSE Some(criteria[Get(sent.criterion_id)])
        entry == feedback'[id]
    IN /\ IF prior # {}
          THEN /\ prior = {id}
               /\ DOMAIN feedback' = DOMAIN feedback
               /\ entry.evaluation_id = feedback[id].evaluation_id
               /\ entry.rubric_id = feedback[id].rubric_id
               /\ entry.criterion_id = feedback[id].criterion_id
          ELSE /\ id \notin DOMAIN feedback
               /\ DOMAIN feedback' = DOMAIN feedback \cup {id}
               /\ entry.evaluation_id = sent.evaluation_id
               /\ entry.rubric_id = rubric_id
               /\ entry.criterion_id = sent.criterion_id
       /\ entry.model_score = model_score
       /\ Some(entry.user_corrected_score)
            = _validate_corrected_score(rubrics[rubric_id].scoring_type,
                                        sent.user_corrected_score, criterion)
       /\ entry.user_explanation = sent.user_explanation
       /\ \A f \in DOMAIN feedback \ {id} : feedback'[f] = feedback[f]

Created(r) == r.op = "create_evaluation" /\ r.result = Ok

\* C7: an evaluation created without a prompt id references a newly inserted prompt
\* (the only one, version 1, active, its template holding both placeholders) when
\* there was no prompt, and otherwise the prompt of lowest id, no prompt being
\* inserted and no is_active changed; created with the id of a prompt that exists,
\* it references that prompt and no prompt is inserted.
C7_PromptResolution ==
    [][Created(last') =>
         LET evaluation == evaluations'[Get(last'.id)]
             prompt_id == last'.req.prompt_id
         IN IF prompt_id # None
            THEN /\ evaluation.prompt_id = Get(prompt_id)
                 /\ Get(prompt_id) \in DOMAIN prompts
                 /\ DOMAIN prompts' = DOMAIN prompts
            ELSE IF DOMAIN prompts = {}
            THEN /\ DOMAIN prompts' = {evaluation.prompt_id}
                 /\ prompts'[evaluation.prompt_id].version = 1
                 /\ prompts'[evaluation.prompt_id].is_active = Some(TRUE)
                 /\ \A i \in DOMAIN REQUIRED_PLACEHOLDERS :
                        Contains(prompts'[evaluation.prompt_id].template_text,
                                 REQUIRED_PLACEHOLDERS[i])
            ELSE /\ DOMAIN prompts' = DOMAIN prompts
                 /\ \A i \in DOMAIN prompts : prompts'[i].is_active = prompts[i].is_active
                 /\ evaluation.prompt_id = MinOf(DOMAIN prompts)]_vars

\* An evaluation created without a prompt id references the first prompt although
\* another one is the active one.
C7_Witness ==
    /\ Created(last)
    /\ last.req.prompt_id = None
    /\ Cardinality(DOMAIN prompts) = MaxPrompts
    /\ Active(prompts) = {MaxPrompts}
    /\ evaluations[Get(last.id)].prompt_id = 1
    /\ prompts[1].total_evaluations = 1

\* The paper, the rubric or the prompt a request names is not in the store.
NamesMissing(r) ==
    \/ r.req.paper_id \notin papers
    \/ r.req.rubric_id \notin DOMAIN rubrics
    \/ (r.req.prompt_id # None /\ Get(r.req.prompt_id) \notin DOMAIN prompts)

\* C9: a create_evaluation request naming a paper, a rubric or a prompt id that does
\* not exist answers NotFound, makes no call to the backend and leaves the store as it
\* was: no evaluation, no prompt, no change of a counter.
C9_NotFoundChangesNothing ==
    [][(last'.op = "create_evaluation" /\ NamesMissing(last'))
         => (last'.result = NotFound /\ last'.calls = 0 /\ store' = store)]_vars

\* A request without a supplied response named a prompt id that does not exist, while
\* no prompt exists: it was refused and no default prompt was added.
C9_Witness ==
    /\ last.op = "create_evaluation"
    /\ last.result = NotFound
    /\ last.req.paper_id \in papers
    /\ last.req.rubric_id \in DOMAIN rubrics
    /\ last.req.prompt_id = Some(MaxPrompts + 1)
    /\ last.req.model_response = None
    /\ last.calls = 0
    /\ prompts = <<>>

\* The request called the remote backend and the exchange failed.
BackendFailed(r) ==
    /\ r.op = "create_evaluation"
    /\ r.calls = 1
    /\ get_adapter(None, r.req.settings) = "ollama"
    /\ r.req.outcome # "ok"

\* Every prompt's counter is the number of evaluations that reference it.
CountersMatch ==
    \A p \in DOMAIN prompts :
        prompts[p].total_evaluations
            = Cardinality({e \in DOMAIN evaluations : evaluations[e].prompt_id = p})

\* C10: a create_evaluation request whose backend call fails answers
\* BackendUnavailable and leaves the store as it was (no evaluation, no counter
\* increment, no default prompt), and in every state each evaluation is matched by
\* its prompt's counter.
C10_AllOrNothing ==
    [][/\ BackendFailed(last') => (last'.result = BackendUnavailable /\ store' = store)
       /\ CountersMatch']_vars

\* C10, the part the code keeps: a failed backend call leaves the store as it was,
\* whatever the request answers, and the counters match the evaluations.
C10_FailureWritesNothing ==
    [][/\ BackendFailed(last') => (last'.result # Ok /\ store' = store)
       /\ CountersMatch']_vars

\* The backend's answer was not JSON while no prompt existed: the request failed
\* and the default prompt it had added is gone.
C10_Witness ==
    /\ BackendFailed(last)
    /\ last.req.outcome = "malformed_json"
    /\ last.req.prompt_id = None
    /\ last.result = ServerError
    /\ prompts = <<>>

(***************************************************************************)
(* Reading a stored response back: json.loads over the text json.dumps     *)
(* wrote (api/evaluations.py _parse_model_response).                       *)
(***************************************************************************)
\* The index of the quote that closes a string opened before index i.
ClosingQuote(text, i) == MinOf({j \in i..Len(text) : text[j] = "\""})

\* The index of the last character of the number that starts at index i.
NumberEnd(text, i) ==
    MaxOf({j \in i..Len(text) :
              \A k \in i..j : IsDigit(text[k]) \/ (k = i /\ text[k] = "-")})

RECURSIVE ParseValue(_, _)
RECURSIVE ParseItems(_, _, _)
RECURSIVE ParseMembers(_, _, _)
\* [value, next]: the value that starts at index i and the index after it.
ParseValue(text, i) ==
    CASE text[i] = "null" -> [value |-> JNull, next |-> i + 1]
      [] text[i] = "true" -> [value |-> JBool(TRUE), next |-> i + 1]
      [] text[i] = "false" -> [value |-> JBool(FALSE), next |-> i + 1]
      [] text[i] = "\"" ->
            [value |-> JString(SubSeq(text, i + 1, ClosingQuote(text, i + 1) - 1)),
             next |-> ClosingQuote(text, i + 1) + 1]
      [] text[i] = "[" ->
            IF text[i + 1] = "]"
            THEN [value |-> JArray(<<>>), next |-> i + 2]
            ELSE ParseItems(text, i + 1, <<>>)
      [] text[i] = "{" ->
            IF text[i + 1] = "}"
            THEN [value |-> JObject(<<>>), next |-> i + 2]
            ELSE ParseMembers(text, i + 1, <<>>)
      [] OTHER ->
            [value |-> JNumber(IntValue(SubSeq(text, i, NumberEnd(text, i)))),
             next |-> NumberEnd(text, i) + 1]

ParseItems(text, i, items) ==
    LET item == ParseValue(text, i)
    IN IF text[item.next] = ", "
       THEN ParseItems(text, item.next + 1, Append(items, item.value))
       ELSE [value |-> JArray(Append(items, item.value)), next |-> item.next + 1]

\* A member is "key": value, the key between two quotes.
ParseMembers(text, i, members) ==
    LET member == ParseValue(text, i + 4)
        parsed == Append(members, <<text[i + 1], member.value>>)
    IN IF text[member.next] = ", "
       THEN ParseMembers(text, member.next + 1, parsed)
       ELSE [value |-> JObject(parsed), next |-> member.next + 1]

json_loads(text) == ParseValue(text, 1).value

\* _parse_model_response of the stored column: None for an empty text, else what
\* json.loads makes of it (the column holds what json.dumps wrote).
_parse_model_response(model_response) ==
    IF model_response = <<>> THEN None ELSE Some(json_loads(model_response))

(***************************************************************************)
(* The evaluation backend: requests with and without a supplied response   *)
(* under every configuration and outcome of the remote exchange, and the   *)
(* adapter resolution called on its own.                                   *)
(***************************************************************************)
MaxResponses == 1

\* Supplied model_response values: five that Python counts as false, then six that
\* it counts as true.
Payloads ==
    << JObject(<<>>), JArray(<<>>), JNumber(0), JBool(FALSE), JString(<<>>),
       JBool(TRUE), JNumber(7), JNumber(0 - 12), JString(<<"o", "k">>),
       JArray(<<JNumber(0), JObject(<<>>), JNull>>),
       JObject(<< <<"evaluations", JArray(<<JObject(<< <<"score", JString(Yes)>>,
                                                       <<"criterion_id", JNumber(1)>> >>)>>)>>,
                  <<"done", JBool(FALSE)>> >>) >>

\* The model_response of a request: omitted, or one of the payloads.
Supplied(i) == IF i = 0 THEN None ELSE Some(Payloads[i])

BackendSettings == {StubSettings, OllamaSettings, OllamaFlagSettings}

SubmitEvaluation ==
    \E i \in 0..Len(Payloads), settings \in BackendSettings, outcome \in OllamaOutcomes,
       rubric_id \in {1, 2} :
        /\ create_evaluation(1, rubric_id, None, Supplied(i), settings, outcome)
        /\ Cardinality(DOMAIN evaluations') <= MaxResponses

Providers == {None, Some(""), Some("stub"), Some("ollama"), Some("openai")}

ProviderSettings ==
    [model_provider : {"stub", "ollama", "openai"}, ollama_enabled : BOOLEAN]

\* get_adapter(provider) called under the settings of the environment.
ResolveAdapter ==
    \E provider \in Providers, settings \in ProviderSettings :
        /\ last' = Request("get_adapter", [provider |-> provider, settings |-> settings],
                           get_adapter(provider, settings), None, 0)
        /\ UNCHANGED store

NextBackend ==
    \/ SubmitEvaluation
    \/ ResolveAdapter

SpecBackend == Init /\ [][NextBackend]_vars

(***************************************************************************)
(* Properties of supplied responses, backend failures and adapter          *)
(* resolution.                                                             *)
(***************************************************************************)
\* The request supplied a response that is not null.
ResponseSupplied(r) == r.op = "create_evaluation" /\ r.req.model_response # None

\* C11: a create_evaluation request that supplies a non-null response, the empty
\* object, the empty list, 0 and false included, makes no call to the backend, and
\* the response stored for it, read back, is exactly the supplied value.
C11_SuppliedResponseVerbatim ==
    [][ResponseSupplied(last') =>
         /\ last'.calls = 0
         /\ last'.result = Ok =>
               _parse_model_response(evaluations'[Get(last'.id)].model_response)
                   = last'.req.model_response]_vars

\* C11, the part the code keeps: a supplied response that Python counts as true is
\* stored without a call to the backend and reads back as supplied.
C11_TruthyResponseVerbatim ==
    [][(ResponseSupplied(last') /\ Truthy(Get(last'.req.model_response))) =>
         /\ last'.calls = 0
         /\ last'.result = Ok
         /\ _parse_model_response(evaluations'[Get(last'.id)].model_response)
               = last'.req.model_response]_vars

\* The empty object was supplied: the stub backend was called and its answer, not
\* the empty object, is what the evaluation holds.
C11_Witness ==
    /\ ResponseSupplied(last)
    /\ last.req.model_response = Some(JObject(<<>>))
    /\ last.calls = 1
    /\ last.result = Ok
    /\ _parse_model_response(evaluations[Get(last.id)].model_response)
          # Some(JObject(<<>>))

\* C12: a create_evaluation request whose call to the remote backend fails, by a
\* transport error, a timeout, a non-2xx status or a malformed body, answers
\* BackendUnavailable and stores no evaluation.
C12_BackendFailureIsUnavailable ==
    [][BackendFailed(last') =>
         (last'.result = BackendUnavailable /\ evaluations' = evaluations)]_vars

\* C12, the part the code keeps: a transport error, a timeout and a non-2xx status
\* answer BackendUnavailable, and no failure of the call stores an evaluation.
C12_TransportFailureIsUnavailable ==
    [][BackendFailed(last') =>
         /\ evaluations' = evaluations
         /\ last'.req.outcome # "malformed_json" => last'.result = BackendUnavailable]_vars

\* The backend enabled by the flag answered 200 with a body that is not JSON: the
\* request answered a server error, and no evaluation is stored.
C12_Witness ==
    /\ BackendFailed(last)
    /\ last.req.settings = OllamaFlagSettings
    /\ last.req.outcome = "malformed_json"
    /\ last.result = ServerError
    /\ evaluations = <<>>

\* The providers get_adapter knows by name.
NamedProviders == {"stub", "ollama"}

\* C13: get_adapter takes the provider from the explicit argument when it names one,
\* else from the model_provider setting when that names Ollama, else from the
\* ollama_enabled flag, else the stub; an explicit "stub" gives the stub whatever the
\* flag says.
C13_StrictPrecedence ==
    last.op = "get_adapter" =>
        LET provider == last.req.provider
            settings == last.req.settings
        IN last.result =
              IF provider # None /\ Get(provider) \in NamedProviders THEN Get(provider)
              ELSE IF settings.model_provider = "ollama" THEN "ollama"
              ELSE IF settings.ollama_enabled THEN "ollama"
              ELSE "stub"

\* C13, the part the code keeps: without an explicit provider the model_provider
\* setting decides when it names Ollama, then the flag, then the stub; an explicit
\* "ollama" gives Ollama.
C13_SettingsPrecedence ==
    (last.op = "get_adapter" /\ last.req.provider \in {None, Some(""), Some("ollama")}) =>
        last.result =
            IF last.req.provider = Some("ollama") \/ last.req.settings.model_provider = "ollama"
                  \/ last.req.settings.ollama_enabled
            THEN "ollama"
            ELSE "stub"

\* get_adapter("stub") was called with OLLAMA_ENABLED true and gave the Ollama adapter.
C13_Witness ==
    /\ last.op = "get_adapter"
    /\ last.req.provider = Some("stub")
    /\ last.req.settings = [model_provider |-> "stub", ollama_enabled |-> TRUE]
    /\ last.result = "ollama"

(***************************************************************************)
(* The stub adapter called on its own, on rubric dicts with and without    *)
(* the keys it reads.                                                      *)
(***************************************************************************)
MaxCriteria == 2

\* A pure call: the function, its arguments and what it returned.
Call(op, req, result) == [op |-> op, req |-> req, result |-> result]

\* StubModelAdapter.evaluate(paper_content, rubric): rubric.get("criteria", []) and
\* rubric.get("scoring_type", "yes_no"), a key being None when absent.
StubModelAdapterEvaluate(paper_content, rubric) ==
    StubEvaluate([scoring_type |-> IF rubric.scoring_type = None THEN "yes_no"
                                   ELSE Get(rubric.scoring_type),
                  criteria |-> IF rubric.criteria = None THEN <<>> ELSE Get(rubric.criteria)])

\* <<min_score, max_score>> of a criterion dict: the key absent, null, or a number.
StubBounds ==
    { <<None, None>>, <<Some(Some(0)), Some(Some(10))>>, <<Some(Some(0)), Some(Some(20))>>,
      <<Some(Some(0 - 3)), Some(Some(0))>>, <<Some(Some(1)), None>>,
      <<Some(None), Some(None)>>, <<Some(Some(2)), Some(None)>> }

StubCriteria ==
    { [id |-> id, name |-> IF id = 1 THEN <<"Thesis">> ELSE <<"Grammar">>,
       min_score |-> b[1], max_score |-> b[2]] : id \in 1..MaxCriteria, b \in StubBounds }

StubScoringTypes == {None, Some("yes_no"), Some("meets_not_meets"), Some("numerical"), Some("letter")}

\* Rubric dicts with up to MaxCriteria criteria, in either order of ids.
StubRubrics ==
    { [scoring_type |-> t, criteria |-> cs] :
        t \in StubScoringTypes,
        cs \in {None, Some(<<>>)} \cup { Some(<<c>>) : c \in StubCriteria }
               \cup { Some(<<c, d>>) : c \in StubCriteria, d \in StubCriteria } }

PaperTexts == {<<"an essay">>, <<>>}

InitPure ==
    /\ papers = {}
    /\ rubrics = <<>>
    /\ criteria = <<>>
    /\ prompts = <<>>
    /\ evaluations = <<>>
    /\ feedback = <<>>
    /\ last = Call("init", <<>>, Ok)

StubEvaluates ==
    \E paper_content \in PaperTexts, rubric \in StubRubrics :
        /\ last' = Call("StubModelAdapter.evaluate",
                        [paper_content |-> paper_content, rubric |-> rubric],
                        StubModelAdapterEvaluate(paper_content, rubric))
        /\ UNCHANGED store

NextStub == StubEvaluates

SpecStub == InitPure /\ [][NextStub]_vars

\* The criteria of a rubric dict, and a bound of a criterion dict (the default when
\* the key is absent or null).
DictCriteria(rubric) == IF rubric.criteria = None THEN <<>> ELSE Get(rubric.criteria)

BoundOr(entry, default) ==
    IF entry = None \/ Get(entry) = None THEN default ELSE Get(Get(entry))

\* The value of a member of a JSON object.
Member(object, key) ==
    object.members[CHOOSE i \in 1..Len(object.members) : object.members[i][1] = key][2]

\* The score the stub is to give: "yes", "meets", the floor of the midpoint, "yes".
IsStubScore(score, scoring_type, c) ==
    IF scoring_type = Some("meets_not_meets") THEN score = JString(Meets)
    ELSE IF scoring_type = Some("numerical")
    THEN /\ score.type = "number"
         /\ 2 * score.value <= BoundOr(c.min_score, 0) + BoundOr(c.max_score, 10)
         /\ BoundOr(c.min_score, 0) + BoundOr(c.max_score, 10) < 2 * score.value + 2
    ELSE score = JString(Yes)

\* The answer has one entry per criterion, in order, with its id, name and score.
OneEntryPerCriterion(rubric, answer) ==
    /\ answer.status = Ok
    /\ answer.value.type = "object"
    /\ Len(answer.value.members) = 1
    /\ LET entries == Member(answer.value, "evaluations").items
           cs == DictCriteria(rubric)
       IN /\ Len(entries) = Len(cs)
          /\ \A i \in 1..Len(cs) :
                /\ Member(entries[i], "criterion_id") = JNumber(cs[i].id)
                /\ Member(entries[i], "criterion_name") = JString(cs[i].name)
                /\ IsStubScore(Member(entries[i], "score"), rubric.scoring_type, cs[i])

\* A criterion of a numerical rubric whose min_score or max_score is null.
HasNullBound(rubric) ==
    /\ rubric.scoring_type = Some("numerical")
    /\ \E i \in 1..Len(DictCriteria(rubric)) :
          Some(None) \in {DictCriteria(rubric)[i].min_score, DictCriteria(rubric)[i].max_score}

\* C14: for every rubric dict the stub returns one entry per criterion, in the order
\* of the criteria (none for no criteria), with the criterion's id and name and the
\* score "yes" for yes_no, "meets" for meets_not_meets, the floor of the midpoint of
\* the bounds for numerical and "yes" for any other type, whatever the paper content.
C14_StubOneEntryPerCriterion ==
    last.op = "StubModelAdapter.evaluate" =>
        OneEntryPerCriterion(last.req.rubric, last.result)

\* C14, the part the code keeps: the same for every rubric dict but a numerical one
\* with a null bound.
C14_StubWithBounds ==
    (last.op = "StubModelAdapter.evaluate" /\ ~HasNullBound(last.req.rubric)) =>
        OneEntryPerCriterion(last.req.rubric, last.result)

\* The stub was given a numerical rubric of two criteria, the second with null
\* bounds, and raised instead of answering.
C14_Witness ==
    /\ last.op = "StubModelAdapter.evaluate"
    /\ last.req.rubric.scoring_type = Some("numerical")
    /\ Len(DictCriteria(last.req.rubric)) = MaxCriteria
    /\ DictCriteria(last.req.rubric)[1].max_score = Some(Some(20))
    /\ DictCriteria(last.req.rubric)[2].min_score = Some(None)
    /\ last.result.status = "TypeError"

(***************************************************************************)
(* The corrected-score validator called on its own.                        *)
(***************************************************************************)
MaxScore == 12

\* The detail of the 422 that _validate_corrected_score raises, "none" when it returns.
RaisedDetail(scoring_type, corrected_score, criterion) ==
    IF scoring_type = "yes_no"
    THEN IF Lower(Strip(corrected_score)) \notin {Yes, No}
         THEN "must be 'yes' or 'no'" ELSE "none"
    ELSE IF scoring_type = "meets_not_meets"
    THEN IF Lower(Strip(corrected_score)) \notin {Meets, DoesNotMeet}
         THEN "must be 'meets' or 'does_not_meet'" ELSE "none"
    ELSE IF scoring_type = "numerical"
    THEN LET text == Strip(corrected_score)
             score == IntValue(text)
         IN IF ~IsIntLiteral(text) THEN "must be an integer"
            ELSE IF criterion # None /\ Get(criterion).min_score # None
                    /\ score < Get(Get(criterion).min_score) THEN "is below minimum"
            ELSE IF criterion # None /\ Get(criterion).max_score # None
                    /\ score > Get(Get(criterion).max_score) THEN "is above maximum"
            ELSE "none"
    ELSE "none"

\* Corrected scores a client sends.
ScoreTexts ==
    { <<"7">>, <<"0", "7">>, <<" ", "7", " ">>, <<"+", "7">>, <<"-", "1">>, <<"-", "0">>,
      <<"0">>, <<"1">>, <<"2">>, <<"3">>, <<" ", "4">>, <<"1", "0">>, <<"1", "1">>,
      <<"0", "0", "1", "2">>, <<>>, <<" ">>, <<"7", ".", "0">>, <<"7", " ", "7">>,
      <<"+">>, <<"-", "-", "1">>, <<"1", "e", "1">>,
      Yes, No, Meets, DoesNotMeet,
      <<" ", "Y", "e", "s">>, <<"N", "O", " ", " ">>, <<"y", "e", "s", "s">>, <<"y">>,
      <<"n", " ", "o">>, <<"M", "E", "E", "T", "S">>, <<" ", "m", "e", "e", "t", " ">>,
      <<"D", "o", "e", "s", "_", "N", "o", "t", "_", "M", "e", "e", "t", " ">>,
      <<"d", "o", "e", "s", " ", "n", "o", "t", " ", "m", "e", "e", "t">>,
      <<"n", "o", "t", "_", "m", "e", "e", "t">> }

\* The criterion the feedback names: none, or one with both, one or no bound.
ScoreCriteria ==
    {None} \cup
    { Some(Criterion(1, <<"Thesis">>, b[1], b[2])) :
        b \in { <<Some(1), Some(3)>>, <<Some(0), Some(10)>>, <<Some(1), None>>,
                <<None, Some(3)>>, <<None, None>>, <<Some(0 - 1), Some(0)>> } }

ScoringTypes == {"yes_no", "meets_not_meets", "numerical", "letter"}

ValidateScore ==
    \E scoring_type \in ScoringTypes, corrected_score \in ScoreTexts, criterion \in ScoreCriteria :
        /\ last' = Call("_validate_corrected_score",
                        [scoring_type |-> scoring_type, corrected_score |-> corrected_score,
                         criterion |-> criterion],
                        [value |-> _validate_corrected_score(scoring_type, corrected_score,
                                                             criterion),
                         detail |-> RaisedDetail(scoring_type, corrected_score, criterion)])
        /\ UNCHANGED store

NextValidator == ValidateScore

SpecValidator == InitPure /\ [][NextValidator]_vars

(***************************************************************************)
(* Properties of the validator, stated without strip(), lower() and int(). *)
(***************************************************************************)
\* core is text without the spaces around it.
TrimsTo(text, core) ==
    \E i \in 0..Len(text), j \in 0..Len(text) :
        /\ i + j <= Len(text)
        /\ \A k \in 1..i : text[k] = " "
        /\ \A k \in (Len(text) - j + 1)..Len(text) : text[k] = " "
        /\ core = SubSeq(text, i + 1, Len(text) - j)
        /\ core # <<>> => (core[1] # " " /\ core[Len(core)] # " ")

\* text is word, surrounded by spaces and in any case of its letters.
Spells(text, word) ==
    \E core \in {SubSeq(text, a, b) : a \in 1..(Len(text) + 1), b \in 0..Len(text)} :
        /\ TrimsTo(text, core)
        /\ Len(core) = Len(word)
        /\ \A k \in 1..Len(word) : core[k] = word[k] \/ LowerChar(core[k]) = word[k]

\* digits is a numeral of n: the decimal digits of n after any number of zeros.
NumeralOf(digits, n) ==
    /\ digits # <<>>
    /\ \E z \in 0..(Len(digits) - 1) :
          /\ \A k \in 1..z : digits[k] = "0"
          /\ SubSeq(digits, z + 1, Len(digits)) = NatStr(n)

\* text, surrounded by spaces, is an optional sign and a numeral of the integer n.
Denotes(text, n) ==
    \E core \in {SubSeq(text, a, b) : a \in 1..(Len(text) + 1), b \in 0..Len(text)} :
        /\ TrimsTo(text, core)
        /\ core # <<>>
        /\ \/ n >= 0 /\ NumeralOf(core, n)
           \/ n >= 0 /\ core[1] = "+" /\ NumeralOf(Tail(core), n)
           \/ n <= 0 /\ core[1] = "-" /\ NumeralOf(Tail(core), 0 - n)

Scores == (0 - MaxScore)..MaxScore

\* n is within the bounds of the criterion that are not null.
WithinBounds(n, criterion) ==
    \/ criterion = None
    \/ /\ Get(criterion).min_score # None => Get(Get(criterion).min_score) <= n
       /\ Get(criterion).max_score # None => n <= Get(Get(criterion).max_score)

Validated(r, scoring_type) ==
    r.op = "_validate_corrected_score" /\ r.req.scoring_type = scoring_type

C16_VocabularyValidation ==
    \A scoring_type \in {"yes_no", "meets_not_meets"} :
        Validated(last, scoring_type) =>
            LET words == IF scoring_type = "yes_no" THEN {Yes, No} ELSE {Meets, DoesNotMeet}
                text == last.req.corrected_score
            IN /\ \A word \in words :
                     Spells(text, word) =>
                        (last.result.value = Some(word) /\ last.result.detail = "none")
               /\ (\A word \in words : ~Spells(text, word)) =>
                     (last.result.value = None /\ last.result.detail # "none")

\* "Does_Not_Meet " was validated for a meets_not_meets rubric and accepted as
\* "does_not_meet".
C16_Witness ==
    /\ Validated(last, "meets_not_meets")
    /\ last.req.corrected_score
          = <<"D", "o", "e", "s", "_", "N", "o", "t", "_", "M", "e", "e", "t", " ">>
    /\ last.result.value = Some(DoesNotMeet)

(***************************************************************************)
(* Prompt versioning: creations under every kind of parent id, rewrites of *)
(* the template, activations, and the default prompt of an evaluation.     *)
(***************************************************************************)
\* Two templates with both placeholders (the first to be stripped), then templates
\* that miss one (the second by the case of its letters), both, or hold a script tag.
PromptTemplates ==
    << <<" ", PaperContent, " ", RubricToken, " ">>,
       <<RubricToken, PaperContent, " updated">>,
       <<PaperContent, " ", "v2">>,
       <<RubricToken, " only">>,
       <<PaperContent, "{{Rubric}}">>,
       <<"No placeholders">>,
       <<ScriptTag, PaperContent, RubricToken>> >>

\* parent_version_id of a creation: absent, 0, an id that may exist, an id that
\* does not.
ParentIds == {None, Some(0)} \cup {Some(i) : i \in 1..2} \cup {Some(MaxPrompts + 1)}

WritePrompt ==
    \/ \E parent \in ParentIds, is_active \in BOOLEAN :
           /\ create_prompt(PromptTemplates[1], parent, is_active)
           /\ Cardinality(DOMAIN prompts') <= MaxPrompts
    \/ \E t \in 3..Len(PromptTemplates), parent \in {None, Some(1), Some(MaxPrompts + 1)} :
           create_prompt(PromptTemplates[t], parent, TRUE)

RewritePrompt ==
    \/ \E id \in PromptIds, t \in 2..Len(PromptTemplates) :
           update_prompt(id, Some(Some(PromptTemplates[t])), None)
    \/ \E id \in PromptIds :
           update_prompt(id, Some(Some(PromptTemplates[3])), Some(Some(TRUE)))
    \/ \E id \in PromptIds : update_prompt(id, Some(None), Some(Some(FALSE)))

UseDefaultPrompt ==
    /\ create_evaluation(1, 1, None, Some(SuppliedResponse), StubSettings, "ok")
    /\ Cardinality(DOMAIN evaluations') <= MaxEvals

NextPrompts ==
    \/ WritePrompt
    \/ RewritePrompt
    \/ ActivatePrompt
    \/ UseDefaultPrompt

SpecPrompts == Init /\ [][NextPrompts]_vars

(***************************************************************************)
(* Properties of prompt versions and templates.                            *)
(***************************************************************************)
\* The version a creation without a parent is to get.
NextVersion(ps) == IF DOMAIN ps = {} THEN 1 ELSE MaxOf({ps[i].version : i \in DOMAIN ps}) + 1

\* C17: a creation that gives parent_version_id answers NotFound and inserts nothing
\* when that prompt does not exist and else gives the new prompt the parent's version
\* plus one; a creation without it gives the highest version of the store plus one,
\* or 1 when the store has no prompt.
C17_VersionNumbering ==
    [][last'.op = "create_prompt" =>
         LET parent == last'.req.parent_version_id
         IN IF parent = None
            THEN last'.result = Ok =>
                    prompts'[Get(last'.id)].version = NextVersion(prompts)
            ELSE IF Get(parent) \in DOMAIN prompts
            THEN last'.result = Ok =>
                    prompts'[Get(last'.id)].version = prompts[Get(parent)].version + 1
            ELSE last'.result = NotFound /\ prompts' = prompts]_vars

\* C17, the part the code keeps: the same for every parent_version_id but 0, which
\* is handled as if no parent had been given.
C17_VersionNumberingNonZero ==
    [][last'.op = "create_prompt" =>
         LET parent == last'.req.parent_version_id
         IN IF parent \in {None, Some(0)}
            THEN last'.result = Ok =>
                    prompts'[Get(last'.id)].version = NextVersion(prompts)
            ELSE IF Get(parent) \in DOMAIN prompts
            THEN last'.result = Ok =>
                    prompts'[Get(last'.id)].version = prompts[Get(parent)].version + 1
            ELSE last'.result = NotFound /\ prompts' = prompts]_vars

\* A creation gave the parent id 0, which no prompt has: it was stored, as the third
\* prompt, with the parent id 0.
C17_Witness ==
    /\ last.op = "create_prompt"
    /\ last.req.parent_version_id = Some(0)
    /\ last.result = Ok
    /\ last.id = Some(MaxPrompts)
    /\ prompts[MaxPrompts].parent_version_id = Some(0)
    /\ prompts[MaxPrompts].version = 3

\* The template of a request lacks a required placeholder.
LacksPlaceholder(template_text) ==
    \E i \in DOMAIN REQUIRED_PLACEHOLDERS : ~Contains(template_text, REQUIRED_PLACEHOLDERS[i])

\* The template a create or update request sends, None when it sends no text.
TemplateSent(r) ==
    IF r.op = "create_prompt" THEN Some(r.req.template_text)
    ELSE IF r.op = "update_prompt" /\ r.req.template_text # None THEN Get(r.req.template_text)
    ELSE None

\* C18: the template of every stored prompt, the default prompt included, contains
\* both placeholders; a create or update request whose template lacks one changes
\* no prompt, no is_active flag either, and answers ValidationError when the prompt
\* it names (parent or target) exists.
C18_TemplatesKeepPlaceholders ==
    [][/\ \A p \in DOMAIN prompts' :
             /\ Contains(prompts'[p].template_text, PaperContent)
             /\ Contains(prompts'[p].template_text, RubricToken)
       /\ (TemplateSent(last') # None /\ LacksPlaceholder(Get(TemplateSent(last')))) =>
             /\ prompts' = prompts
             /\ last'.result \in {ValidationError, NotFound}
             /\ last'.result = NotFound =>
                   IF last'.op = "create_prompt"
                   THEN Get(last'.req.parent_version_id) \notin DOMAIN prompts
                   ELSE last'.req.prompt_id \notin DOMAIN prompts]_vars

\* An update sent the active second prompt a template without {{rubric}} together
\* with is_active true: it was refused and the prompts are as they were, the default
\* prompt among them.
C18_Witness ==
    /\ last.op = "update_prompt"
    /\ last.req.prompt_id = 2
    /\ last.req.template_text = Some(Some(PromptTemplates[3]))
    /\ last.req.is_active = Some(Some(TRUE))
    /\ last.result = ValidationError
    /\ Active(prompts) = {2}
    /\ prompts[1].template_text = DefaultTemplate

(***************************************************************************)
(* Rubrics and their criteria (api/rubrics.py), with the evaluations and   *)
(* the feedback that reference them.                                       *)
(***************************************************************************)
MaxRubrics == 2

MaxRubricId == 3

MaxCriterionId == 4

MaxGraded == 2

MaxRemarks == 1

BadRequest == "BadRequest"

\* The table without the rows of the given ids.
Remove(table, ids) == [i \in DOMAIN table \ ids |-> table[i]]

\* POST /api/rubrics/: criteria_data are the criteria of the body, in order, each
\* [name, min_score, max_score].  RubricCreate refuses an empty list (min_length=1);
\* its validate_numerical_scoring is an undecorated method nothing calls.  The
\* handler adds the rubric, flushes, adds one Criterion per entry from its name,
\* description and order alone, and commits.
create_rubric(scoring_type, criteria_data) ==
    LET req == [scoring_type |-> scoring_type, criteria |-> criteria_data]
        id == NewId(rubrics)
        first == NewId(criteria)
        added == [c \in first..(first + Len(criteria_data) - 1) |->
                     Criterion(id, criteria_data[c - first + 1].name, None, None)]
    IN IF criteria_data = <<>>
       THEN /\ last' = Request("create_rubric", req, ValidationError, None, 0)
            /\ UNCHANGED store
       ELSE /\ rubrics' = Put(rubrics, id, [scoring_type |-> scoring_type])
            /\ criteria' = [c \in DOMAIN criteria \cup DOMAIN added |->
                               IF c \in DOMAIN added THEN added[c] ELSE criteria[c]]
            /\ last' = Request("create_rubric", req, Ok, Some(id), 0)
            /\ UNCHANGED <<papers, prompts, evaluations, feedback>>

\* PUT /api/rubrics/{rubric_id} with a scoring_type.
update_rubric(rubric_id, scoring_type) ==
    LET req == [rubric_id |-> rubric_id, scoring_type |-> scoring_type]
    IN IF rubric_id \notin DOMAIN rubrics
       THEN /\ last' = Request("update_rubric", req, NotFound, None, 0)
            /\ UNCHANGED store
       ELSE /\ rubrics' = [rubrics EXCEPT ![rubric_id].scoring_type = scoring_type]
            /\ last' = Request("update_rubric", req, Ok, Some(rubric_id), 0)
            /\ UNCHANGED <<papers, criteria, prompts, evaluations, feedback>>

\* DELETE /api/rubrics/{rubric_id}: db.delete(rubric); db.commit().  The flush deletes
\* the criteria (Rubric.criteria has cascade="all, delete-orphan").  Rubric.evaluations
\* has no delete cascade, so the flush sets rubric_id of the rubric's evaluations to
\* NULL; the column is NOT NULL, the UPDATE raises IntegrityError, nothing is committed.
delete_rubric(rubric_id) ==
    LET req == [rubric_id |-> rubric_id]
        nullified == {e \in DOMAIN evaluations : evaluations[e].rubric_id = rubric_id}
        deleted == {c \in DOMAIN criteria : criteria[c].rubric_id = rubric_id}
    IN IF rubric_id \notin DOMAIN rubrics
       THEN /\ last' = Request("delete_rubric", req, NotFound, None, 0)
            /\ UNCHANGED store
       ELSE IF nullified # {}
       THEN /\ rubrics' = SessionClosed(rubrics, Remove(rubrics, {rubric_id}))
            /\ criteria' = SessionClosed(criteria, Remove(criteria, deleted))
            /\ last' = Request("delete_rubric", req, ServerError, None, 0)
            /\ UNCHANGED <<papers, prompts, evaluations, feedback>>
       ELSE /\ rubrics' = Remove(rubrics, {rubric_id})
            /\ criteria' = Remove(criteria, deleted)
            /\ last' = Request("delete_rubric", req, Ok, None, 0)
            /\ UNCHANGED <<papers, prompts, evaluations, feedback>>

\* PUT /api/rubrics/{rubric_id}/criteria/{criterion_id}: update_data is
\* criterion_update.model_dump(exclude_unset=True), a record of the fields the client
\* sent among name, min_score and max_score; each is set on the row as sent.
update_criterion(rubric_id, criterion_id, update_data) ==
    LET req == [rubric_id |-> rubric_id, criterion_id |-> criterion_id,
                update_data |-> update_data]
        row == criteria[criterion_id]
    IN IF criterion_id \notin DOMAIN criteria \/ criteria[criterion_id].rubric_id # rubric_id
       THEN /\ last' = Request("update_criterion", req, NotFound, None, 0)
            /\ UNCHANGED store
       ELSE /\ criteria' = [criteria EXCEPT ![criterion_id] =
                               [field \in DOMAIN row |->
                                   IF field \in DOMAIN update_data
                                   THEN update_data[field] ELSE row[field]]]
            /\ last' = Request("update_criterion", req, Ok, Some(criterion_id), 0)
            /\ UNCHANGED <<papers, rubrics, prompts, evaluations, feedback>>

\* A deletion that does not count the criteria of the rubric.
DeleteCriterionUncounted(rubric_id, criterion_id) ==
    LET req == [rubric_id |-> rubric_id, criterion_id |-> criterion_id]
    IN IF rubric_id \notin DOMAIN rubrics
          \/ criterion_id \notin DOMAIN criteria \/ criteria[criterion_id].rubric_id # rubric_id
       THEN /\ last' = Request("delete_criterion", req, NotFound, None, 0)
            /\ UNCHANGED store
       ELSE /\ criteria' = Remove(criteria, {criterion_id})
            /\ last' = Request("delete_criterion", req, Ok, None, 0)
            /\ UNCHANGED <<papers, rubrics, prompts, evaluations, feedback>>

\* DELETE /api/rubrics/{rubric_id}/criteria/{criterion_id}
delete_criterion(rubric_id, criterion_id) ==
    LET req == [rubric_id |-> rubric_id, criterion_id |-> criterion_id]
    IN IF rubric_id \notin DOMAIN rubrics
       THEN /\ last' = Request("delete_criterion", req, NotFound, None, 0)
            /\ UNCHANGED store
       ELSE IF Len(CriteriaOf(rubric_id)) <= 1
       THEN /\ last' = Request("delete_criterion", req, BadRequest, None, 0)
            /\ UNCHANGED store
       ELSE IF criterion_id \notin DOMAIN criteria \/ criteria[criterion_id].rubric_id # rubric_id
       THEN /\ last' = Request("delete_criterion", req, NotFound, None, 0)
            /\ UNCHANGED store
       ELSE /\ criteria' = Remove(criteria, {criterion_id})
            /\ last' = Request("delete_criterion", req, Ok, None, 0)
            /\ UNCHANGED <<papers, rubrics, prompts, evaluations, feedback>>

\* A criterion of a POST /api/rubrics/ body.
CriterionCreate(name, min_score, max_score) ==
    [name |-> name, min_score |-> min_score, max_score |-> max_score]

\* The criteria of a POST /api/rubrics/ body: none, one, two, without bounds.
CriteriaBodies ==
    { <<>>,
      <<CriterionCreate(<<"Thesis">>, None, None)>>,
      <<CriterionCreate(<<"Thesis">>, None, None), CriterionCreate(<<"Grammar">>, None, None)>> }

RubricIds == 1..MaxRubricId

CriterionIds == 1..MaxCriterionId

InitRubrics ==
    /\ papers = {1}
    /\ rubrics = <<>>
    /\ criteria = <<>>
    /\ prompts = <<>>
    /\ evaluations = <<>>
    /\ feedback = <<>>
    /\ last = Request("init", <<>>, Ok, None, 0)

NextRubrics ==
    \/ \E criteria_data \in CriteriaBodies :
           /\ create_rubric("yes_no", criteria_data)
           /\ Cardinality(DOMAIN rubrics') <= MaxRubrics
           /\ \A r \in DOMAIN rubrics' : r <= MaxRubricId
           /\ \A c \in DOMAIN criteria' : c <= MaxCriterionId
    \/ \E rubric_id \in RubricIds : update_rubric(rubric_id, "meets_not_meets")
    \/ \E rubric_id \in RubricIds : delete_rubric(rubric_id)
    \/ \E rubric_id \in RubricIds, criterion_id \in 1..MaxCriteria :
           update_criterion(rubric_id, criterion_id, [name |-> <<"Thesis Updated">>])
    \/ \E rubric_id \in RubricIds, criterion_id \in CriterionIds :
           delete_criterion(rubric_id, criterion_id)
    \/ \E rubric_id \in RubricIds :
           /\ create_evaluation(1, rubric_id, None, Some(SuppliedResponse), StubSettings, "ok")
           /\ Cardinality(DOMAIN evaluations') <= MaxGraded
    \/ \E evaluation_id \in 1..MaxGraded :
           /\ evaluation_id \in DOMAIN evaluations
           /\ create_or_update_feedback(evaluation_id, None, Yes, No, None)
           /\ Cardinality(DOMAIN feedback') <= MaxRemarks

SpecRubrics == InitRubrics /\ [][NextRubrics]_vars

(***************************************************************************)
(* Properties of rubric and criterion deletion.                            *)
(***************************************************************************)
\* The evaluations that reference the rubric.
EvaluationsOf(rubric_id) == {e \in DOMAIN evaluations : evaluations[e].rubric_id = rubric_id}

\* A request to delete a rubric that exists.
DeletesRubric(r) == r.op = "delete_rubric" /\ r.req.rubric_id \in DOMAIN rubrics

\* C19: deleting a rubric that exists succeeds and removes the rubric, its criteria,
\* the evaluations that reference it and the feedback of those evaluations, and
\* nothing else.
C19_DeleteRubricCascades ==
    [][DeletesRubric(last') =>
         LET rubric_id == last'.req.rubric_id
         IN /\ last'.result = Ok
            /\ rubrics' = Remove(rubrics, {rubric_id})
            /\ criteria' = Remove(criteria, {c \in DOMAIN criteria :
                                                criteria[c].rubric_id = rubric_id})
            /\ evaluations' = Remove(evaluations, EvaluationsOf(rubric_id))
            /\ feedback' = Remove(feedback, {f \in DOMAIN feedback :
                                                feedback[f].evaluation_id
                                                    \in EvaluationsOf(rubric_id)})]_vars

\* C19, the part the code keeps: deleting a rubric that no evaluation references
\* succeeds and removes the rubric and its criteria and nothing else; deleting one
\* that an evaluation references fails and removes nothing.
C19_DeleteUnreferencedRubric ==
    [][DeletesRubric(last') =>
         LET rubric_id == last'.req.rubric_id
         IN IF EvaluationsOf(rubric_id) = {}
            THEN /\ last'.result = Ok
                 /\ rubrics' = Remove(rubrics, {rubric_id})
                 /\ criteria' = Remove(criteria, {c \in DOMAIN criteria :
                                                     criteria[c].rubric_id = rubric_id})
                 /\ evaluations' = evaluations
                 /\ feedback' = feedback
            ELSE last'.result = ServerError /\ store' = store]_vars

\* The first of two rubrics has an evaluation with feedback; its deletion failed and
\* the rubric, its criteria, the evaluation and the feedback are still stored.
C19_Witness ==
    /\ last.op = "delete_rubric"
    /\ last.req.rubric_id = 1
    /\ last.result = ServerError
    /\ DOMAIN rubrics = {1, 2}
    /\ CriteriaOf(1) # <<>>
    /\ \E e \in EvaluationsOf(1) : \E f \in DOMAIN feedback : feedback[f].evaluation_id = e

\* C20: every stored rubric has at least one criterion; a creation with an empty
\* list of criteria is refused and stores nothing, and a deletion of the only
\* criterion of a rubric is refused and leaves the rubric and the criterion as they
\* were.
C20_RubricKeepsACriterion ==
    [][/\ \A r \in DOMAIN rubrics' : \E c \in DOMAIN criteria' : criteria'[c].rubric_id = r
       /\ (last'.op = "create_rubric" /\ last'.req.criteria = <<>>)
             => (last'.result = ValidationError /\ store' = store)
       /\ (/\ last'.op = "delete_criterion"
           /\ last'.req.rubric_id \in DOMAIN rubrics
           /\ Cardinality({c \in DOMAIN criteria :
                              criteria[c].rubric_id = last'.req.rubric_id}) = 1)
             => (last'.result = BadRequest /\ store' = store)]_vars

\* The second criterion is the only one the first rubric has left, and the request
\* to delete it was refused.
C20_Witness ==
    /\ last.op = "delete_criterion"
    /\ last.req = [rubric_id |-> 1, criterion_id |-> 2]
    /\ last.result = BadRequest
    /\ 1 \in DOMAIN rubrics
    /\ CriteriaOf(1) = <<2>>

(***************************************************************************)
(* The stub's default range.                                               *)
(***************************************************************************)
\* A criterion dict without bounds: each key absent or null.
Unbounded(c) == c.min_score \in {None, Some(None)} /\ c.max_score \in {None, Some(None)}

\* The stub answered, and every entry carries the midpoint of StubDefaultMin and
\* StubDefaultMax.
AnswersDefaultMidpoint(answer) ==
    /\ answer.status = Ok
    /\ \A i \in 1..Len(Member(answer.value, "evaluations").items) :
          Member(Member(answer.value, "evaluations").items[i], "score") = JNumber(5)

\* C23: for a numerical rubric dict whose criteria have no bounds, absent or null,
\* the stub answers with the score 5 for every criterion and does not fail.
C23_StubDefaultsUnbounded ==
    (/\ last.op = "StubModelAdapter.evaluate"
     /\ last.req.rubric.scoring_type = Some("numerical")
     /\ DictCriteria(last.req.rubric) # <<>>
     /\ \A i \in 1..Len(DictCriteria(last.req.rubric)) :
           Unbounded(DictCriteria(last.req.rubric)[i]))
        => AnswersDefaultMidpoint(last.result)

\* C23, the part the code keeps: the same when the keys min_score and max_score are
\* absent from every criterion dict.
C23_StubDefaultsAbsentBounds ==
    (/\ last.op = "StubModelAdapter.evaluate"
     /\ last.req.rubric.scoring_type = Some("numerical")
     /\ DictCriteria(last.req.rubric) # <<>>
     /\ \A i \in 1..Len(DictCriteria(last.req.rubric)) :
           /\ DictCriteria(last.req.rubric)[i].min_score = None
           /\ DictCriteria(last.req.rubric)[i].max_score = None)
        => AnswersDefaultMidpoint(last.result)

\* The stub was given a numerical rubric whose only criterion has null bounds, and
\* raised instead of answering.
C23_Witness ==
    /\ last.op = "StubModelAdapter.evaluate"
    /\ last.req.rubric.scoring_type = Some("numerical")
    /\ Len(DictCriteria(last.req.rubric)) = 1
    /\ DictCriteria(last.req.rubric)[1].min_score = Some(None)
    /\ DictCriteria(last.req.rubric)[1].max_score = Some(None)
    /\ last.result.status = "TypeError"

(***************************************************************************)
(* Properties of refused feedback submissions.                             *)
(***************************************************************************)
SubmittedFeedback(r) == r.op = "create_or_update_feedback"

C25_VersionsIncrease ==
    \A p, q \in DOMAIN prompts : p < q => prompts[p].version < prompts[q].version

\* C25, the part the code keeps: a prompt created without a parent gets a version
\* above every stored version, a prompt created from a parent a version above its
\* parent's, and versions are never rewritten.
C25_VersionsIncreaseWithoutParent ==
    [][/\ \A p \in DOMAIN prompts :
             p \in DOMAIN prompts' /\ prompts'[p].version = prompts[p].version
       /\ \A q \in DOMAIN prompts' \ DOMAIN prompts :
             IF last'.op = "create_prompt" /\ last'.req.parent_version_id \notin {None, Some(0)}
             THEN prompts'[q].version > prompts[Get(last'.req.parent_version_id)].version
             ELSE \A p \in DOMAIN prompts : prompts[p].version < prompts'[q].version]_vars

\* Two prompts were created without a parent and have versions 1 and 2; a third was
\* then created from the first and has version 2 as well.
C25_Witness ==
    /\ last.op = "create_prompt"
    /\ last.result = Ok
    /\ last.req.parent_version_id = Some(1)
    /\ last.id = Some(3)
    /\ prompts[1].version = 1
    /\ prompts[2].version = 2
    /\ prompts[2].parent_version_id = None
    /\ prompts[3].version = 2

(***************************************************************************)
(* Scoring types and score bounds: rubrics of every scoring type created   *)
(* with and without bounds, scoring types changed, bounds rewritten.       *)
(***************************************************************************)
\* The criteria of POST /api/rubrics/ bodies with bounds: both given and
\* min_score < max_score, min_score missing, max_score missing, equal, reversed, and
\* a bounded criterion followed by one without bounds.
ScoredBodies ==
    { <<CriterionCreate(<<"Thesis">>, Some(0), Some(10))>>,
      <<CriterionCreate(<<"Thesis">>, None, Some(10))>>,
      <<CriterionCreate(<<"Thesis">>, Some(0), None)>>,
      <<CriterionCreate(<<"Thesis">>, Some(5), Some(5))>>,
      <<CriterionCreate(<<"Thesis">>, Some(10), Some(5))>>,
      <<CriterionCreate(<<"Thesis">>, Some(0), Some(10)),
        CriterionCreate(<<"Grammar">>, None, None)>> }

\* update_data of PUT /api/rubrics/{rubric_id}/criteria/{criterion_id} bodies that
\* send bounds: a range, an empty range, a null max_score alone.
BoundsUpdates ==
    << [min_score |-> Some(0), max_score |-> Some(10)],
       [min_score |-> Some(5), max_score |-> Some(5)],
       [max_score |-> None] >>

\* The values of the ScoringType enum, the ones RubricCreate and RubricUpdate accept.
ScoringType == {"yes_no", "meets_not_meets", "numerical"}

NextScoring ==
    \/ \E scoring_type \in ScoringType, criteria_data \in CriteriaBodies \cup ScoredBodies :
           /\ create_rubric(scoring_type, criteria_data)
           /\ Cardinality(DOMAIN rubrics') <= MaxRubrics
           /\ \A c \in DOMAIN criteria' : c <= MaxCriterionId
    \/ \E rubric_id \in RubricIds, scoring_type \in ScoringType :
           update_rubric(rubric_id, scoring_type)
    \/ \E rubric_id \in RubricIds, criterion_id \in 1..MaxCriteria, u \in DOMAIN BoundsUpdates :
           update_criterion(rubric_id, criterion_id, BoundsUpdates[u])

SpecScoring == InitRubrics /\ [][NextScoring]_vars

(***************************************************************************)
(* Properties of numerical rubrics.                                        *)
(***************************************************************************)
\* Bounds a numerical rubric accepts: both present, min_score below max_score.
ProperBounds(c) ==
    c.min_score # None /\ c.max_score # None /\ Get(c.min_score) < Get(c.max_score)

\* The rubric and the criteria a creation stored.
StoredBy(r) ==
    /\ r.result = Ok
    /\ DOMAIN rubrics' = DOMAIN rubrics \cup {Get(r.id)}
    /\ Get(r.id) \notin DOMAIN rubrics
    /\ rubrics'[Get(r.id)].scoring_type = r.req.scoring_type
    /\ Cardinality(DOMAIN criteria' \ DOMAIN criteria) = Len(r.req.criteria)
    /\ \A c \in DOMAIN criteria' \ DOMAIN criteria : criteria'[c].rubric_id = Get(r.id)

\* C21: a creation of a numerical rubric in which a criterion lacks min_score, lacks
\* max_score or has min_score >= max_score answers ValidationError and stores
\* nothing; a rubric of another scoring type is created whether or not its criteria
\* have bounds.
C21_NumericalRubricNeedsBounds ==
    [][(last'.op = "create_rubric" /\ last'.req.criteria # <<>>) =>
         IF last'.req.scoring_type = "numerical"
         THEN (\E i \in 1..Len(last'.req.criteria) : ~ProperBounds(last'.req.criteria[i]))
                 => (last'.result = ValidationError /\ store' = store)
         ELSE StoredBy(last')]_vars

\* C21, the part the code keeps: a rubric of a scoring type other than numerical is
\* created, with one criterion per entry of the body, whether or not the entries
\* have bounds.
C21_OtherRubricsNeedNoBounds ==
    [][(/\ last'.op = "create_rubric"
        /\ last'.req.criteria # <<>>
        /\ last'.req.scoring_type # "numerical") => StoredBy(last')]_vars

\* A numerical rubric was sent with one criterion that has a max_score and no
\* min_score; it was created, and its criterion is stored without bounds.
C21_Witness ==
    /\ last.op = "create_rubric"
    /\ last.req.scoring_type = "numerical"
    /\ last.req.criteria = <<CriterionCreate(<<"Thesis">>, None, Some(10))>>
    /\ last.result = Ok
    /\ rubrics[Get(last.id)].scoring_type = "numerical"
    /\ \E c \in DOMAIN criteria :
          /\ criteria[c].rubric_id = Get(last.id)
          /\ criteria[c].min_score = None
          /\ criteria[c].max_score = None

\* C26: in every state each criterion of a numerical rubric has a min_score and a
\* max_score, min_score below max_score.
C26_NumericalCriteriaBounded ==
    \A c \in DOMAIN criteria :
        rubrics[criteria[c].rubric_id].scoring_type = "numerical" => ProperBounds(criteria[c])

\* A yes_no rubric was created, its criterion given the bounds 0..10 and the rubric
\* made numerical; a bounds update with min_score = max_score = 5 was then accepted.
C26_Witness ==
    /\ last.op = "update_criterion"
    /\ last.result = Ok
    /\ last.req.update_data = [min_score |-> Some(5), max_score |-> Some(5)]
    /\ rubrics[last.req.rubric_id].scoring_type = "numerical"
    /\ criteria[last.req.criterion_id].min_score = Some(5)
    /\ criteria[last.req.criterion_id].max_score = Some(5)
    /\ \A c \in DOMAIN criteria \ {last.req.criterion_id} :
          rubrics[criteria[c].rubric_id].scoring_type = "numerical" => ProperBounds(criteria[c])

(***************************************************************************)
(* Deletions (api/papers.py, api/rubrics.py) against the evaluations, the  *)
(* feedback and the prompts' counters.                                     *)
(***************************************************************************)
MaxVersions == 2

\* A paper deletion that takes the deleted evaluations off their prompts' counters.
DeletePaperUncounting(paper_id) ==
    LET req == [paper_id |-> paper_id]
        deleted == {e \in DOMAIN evaluations : evaluations[e].paper_id = paper_id}
        orphans == {f \in DOMAIN feedback : feedback[f].evaluation_id \in deleted}
    IN IF paper_id \notin papers
       THEN /\ last' = Request("delete_paper", req, NotFound, None, 0)
            /\ UNCHANGED store
       ELSE /\ papers' = papers \ {paper_id}
            /\ evaluations' = Remove(evaluations, deleted)
            /\ feedback' = Remove(feedback, orphans)
            /\ prompts' = [p \in DOMAIN prompts |->
                              [prompts[p] EXCEPT !.total_evaluations =
                                  @ - Cardinality({e \in deleted : evaluations[e].prompt_id = p})]]
            /\ last' = Request("delete_paper", req, Ok, None, 0)
            /\ UNCHANGED <<rubrics, criteria>>

\* DELETE /api/papers/{paper_id}: db.delete(paper); db.commit().  Paper.evaluations and
\* Evaluation.feedback_entries have cascade="all, delete-orphan": the flush deletes the
\* paper's evaluations and their feedback entries with it.
delete_paper(paper_id) ==
    LET req == [paper_id |-> paper_id]
        deleted == {e \in DOMAIN evaluations : evaluations[e].paper_id = paper_id}
        orphans == {f \in DOMAIN feedback : feedback[f].evaluation_id \in deleted}
    IN IF paper_id \notin papers
       THEN /\ last' = Request("delete_paper", req, NotFound, None, 0)
            /\ UNCHANGED store
       ELSE /\ papers' = papers \ {paper_id}
            /\ evaluations' = Remove(evaluations, deleted)
            /\ feedback' = Remove(feedback, orphans)
            /\ last' = Request("delete_paper", req, Ok, None, 0)
            /\ UNCHANGED <<rubrics, criteria, prompts>>

\* Rubrics of two criteria are created and deleted, criteria and the paper deleted,
\* a second prompt created; evaluations are requested with a supplied response or
\* from a backend that times out, for the default prompt or a named one, and given
\* feedback for a criterion or overall.
NextIntegrity ==
    \/ /\ create_rubric("yes_no", <<CriterionCreate(<<"Thesis">>, None, None),
                                    CriterionCreate(<<"Grammar">>, None, None)>>)
       /\ Cardinality(DOMAIN rubrics') <= MaxRubrics
       /\ \A c \in DOMAIN criteria' : c <= MaxCriterionId
    \/ \E rubric_id \in 1..MaxRubrics : delete_rubric(rubric_id)
    \/ \E rubric_id \in 1..MaxRubrics, criterion_id \in 1..MaxCriteria :
           delete_criterion(rubric_id, criterion_id)
    \/ \E paper_id \in 1..2 : delete_paper(paper_id)
    \/ /\ create_prompt(Templates[1], None, FALSE)
       /\ Cardinality(DOMAIN prompts') <= MaxVersions
    \/ \E rubric_id \in 1..MaxRubrics, prompt_id \in {None} \cup {Some(p) : p \in 1..MaxVersions},
          failing \in BOOLEAN :
           /\ create_evaluation(1, rubric_id, prompt_id,
                                IF failing THEN None ELSE Some(SuppliedResponse),
                                OllamaSettings, IF failing THEN "timeout" ELSE "ok")
           /\ Cardinality(DOMAIN evaluations') <= MaxGraded
    \/ \E evaluation_id \in 1..MaxGraded, criterion_id \in {None} \cup {Some(c) : c \in 1..MaxCriteria} :
           /\ create_or_update_feedback(evaluation_id, criterion_id, Yes, No, None)
           /\ Cardinality(DOMAIN feedback') <= MaxRemarks

SpecIntegrity == InitRubrics /\ [][NextIntegrity]_vars

(***************************************************************************)
(* Properties of references and counters under deletion.                   *)
(***************************************************************************)
\* Every evaluation references a stored paper, rubric and prompt, and every feedback
\* entry a stored evaluation.
ReferencesKept ==
    /\ \A e \in DOMAIN evaluations :
          /\ evaluations[e].paper_id \in papers
          /\ evaluations[e].rubric_id \in DOMAIN rubrics
          /\ evaluations[e].prompt_id \in DOMAIN prompts
    /\ \A f \in DOMAIN feedback : feedback[f].evaluation_id \in DOMAIN evaluations

\* Evaluations and feedback entries go only with a deleted paper or rubric, and no
\* prompt goes.
OnlyCascadesRemove ==
    /\ (\E e \in DOMAIN evaluations : e \notin DOMAIN evaluations')
          => last'.op \in {"delete_paper", "delete_rubric"}
    /\ (\E f \in DOMAIN feedback : f \notin DOMAIN feedback')
          => last'.op \in {"delete_paper", "delete_rubric"}
    /\ DOMAIN prompts \subseteq DOMAIN prompts'

C30_EvaluationReferencesKept ==
    [][ReferencesKept' /\ OnlyCascadesRemove]_vars

Session(op, req, pc, id, db, calls, answer) ==
    [op |-> op, req |-> req, result |-> "pending", id |-> id, calls |-> calls,
     pc |-> pc, db |-> db, answer |-> answer]

\* A flush that commits what it sends.
CommitOnFlush(committed, pending) == pending

\* db.flush() and Query.update(): the statements run inside the session's transaction
\* and the committed table stays as it was.
db_flush(committed, pending) == committed

\* db.commit(): what the session wrote becomes the committed table.
db_commit(committed, pending) == pending

\* A request that raises before its first write is the whole handler.
Refuse ==
    /\ last.result # "pending"
    /\ \/ \E t \in {1, 2}, a \in BOOLEAN : create_prompt(Templates[t], None, a)
       \/ create_prompt(Templates[1], Some(MaxVersions + 1), TRUE)
       \/ \E id \in 1..(MaxVersions + 1), a \in BOOLEAN : update_prompt(id, None, Some(Some(a)))
       \/ \E id \in 1..(MaxVersions + 1) : activate_prompt(id)
       \/ \E rubric_id \in {1, 3}, prompt_id \in {None, Some(1), Some(MaxVersions + 1)} :
              create_evaluation(1, rubric_id, prompt_id, None, StubSettings, "ok")
    /\ last'.result \in {NotFound, ValidationError}

\* create_prompt up to db.flush() (the row is inserted with the is_active sent),
\* update_prompt up to its assignments, activate_prompt up to its lookup.
OpenPrompt ==
    /\ last.result # "pending"
    /\ \/ \E template_text \in {Templates[1]}, parent_version_id \in {None, Some(1)},
             is_active \in BOOLEAN :
              LET req == [template_text |-> template_text,
                          parent_version_id |-> parent_version_id, is_active |-> is_active]
                  parent_given == parent_version_id # None /\ Get(parent_version_id) # 0
                  version == IF parent_given
                             THEN prompts[Get(parent_version_id)].version + 1
                             ELSE (IF DOMAIN prompts = {} THEN 0 ELSE LatestVersion(prompts)) + 1
                  cleaned == sanitize_text(template_text, TemplateMinLength, TemplateMaxLength)
                  id == NewId(prompts)
                  row == [version |-> version, template_text |-> Get(cleaned),
                          parent_version_id |-> parent_version_id,
                          is_active |-> Some(is_active), total_evaluations |-> 0]
              IN /\ ~(parent_given /\ Get(parent_version_id) \notin DOMAIN prompts)
                 /\ cleaned # None
                 /\ _validate_placeholders(Get(cleaned))
                 /\ id <= MaxVersions
                 /\ last' = Session("create_prompt", req, IF is_active THEN "begun" ELSE "ready",
                                    Some(id), [prompts |-> Put(prompts, id, row),
                                               evaluations |-> evaluations], 0, JNull)
                 /\ prompts' = db_flush(prompts, Put(prompts, id, row))
       \/ \E prompt_id \in DOMAIN prompts, is_active \in {Some(Some(TRUE)), Some(Some(FALSE))} :
              LET req == [prompt_id |-> prompt_id, template_text |-> None,
                          is_active |-> is_active]
                  activating == Get(is_active) = Some(TRUE)
                  ps == IF activating THEN prompts
                        ELSE [prompts EXCEPT ![prompt_id].is_active = Get(is_active)]
              IN /\ last' = Session("update_prompt", req, IF activating THEN "begun" ELSE "ready",
                                    Some(prompt_id), [prompts |-> ps,
                                                      evaluations |-> evaluations], 0, JNull)
                 /\ prompts' = prompts
       \/ \E prompt_id \in DOMAIN prompts :
              /\ last' = Session("activate_prompt", [prompt_id |-> prompt_id], "begun",
                                 Some(prompt_id), [prompts |-> prompts,
                                                   evaluations |-> evaluations], 0, JNull)
              /\ prompts' = prompts
    /\ UNCHANGED <<papers, rubrics, criteria, evaluations, feedback>>

\* _ensure_single_active(db, active_prompt_id=prompt.id): the UPDATE of the other
\* prompts runs in the session's transaction.
DeactivateOthers ==
    /\ last.result = "pending"
    /\ last.pc = "begun"
    /\ LET ps == _ensure_single_active(last.db.prompts, last.id)
       IN /\ last' = [last EXCEPT !.pc = "ready", !.db.prompts = ps]
          /\ prompts' = db_flush(prompts, ps)
    /\ UNCHANGED <<papers, rubrics, criteria, evaluations, feedback>>

\* "prompt.is_active = True" of update_prompt and activate_prompt, then db.commit().
CommitPrompt ==
    /\ last.result = "pending"
    /\ last.pc = "ready"
    /\ LET ps == IF last.op # "create_prompt" /\ Activating(last)
                 THEN [last.db.prompts EXCEPT ![Get(last.id)].is_active = Some(TRUE)]
                 ELSE last.db.prompts
       IN prompts' = db_commit(prompts, ps)
    /\ last' = Request(last.op, last.req, Ok, last.id, 0)
    /\ UNCHANGED <<papers, rubrics, criteria, evaluations, feedback>>

\* create_evaluation up to the resolution of its prompt: the paper, the rubric and
\* the prompt are looked up, a default prompt added and flushed when there is none.
OpenEvaluation ==
    /\ last.result # "pending"
    /\ Cardinality(DOMAIN evaluations) < MaxEvals
    /\ \E prompt_id \in {None, Some(1)}, model_response \in {None, Some(SuppliedResponse)},
          settings \in {StubSettings, OllamaSettings},
          outcome \in {"ok", "timeout", "malformed_json"} :
           LET req == [paper_id |-> 1, rubric_id |-> 1, prompt_id |-> prompt_id,
                       model_response |-> model_response, settings |-> settings,
                       outcome |-> outcome]
               found == IF prompt_id # None THEN FindPrompt(prompts, Get(prompt_id)) ELSE None
               resolved == IF prompt_id # None
                           THEN [id |-> Get(found), prompts |-> prompts]
                           ELSE _get_or_create_default_prompt(prompts)
           IN /\ req.paper_id \in papers
              /\ req.rubric_id \in DOMAIN rubrics
              /\ prompt_id # None => found # None
              /\ last' = Session("create_evaluation", req, "resolved", Some(resolved.id),
                                 [prompts |-> resolved.prompts, evaluations |-> evaluations],
                                 0, JNull)
              /\ prompts' = db_flush(prompts, resolved.prompts)
    /\ UNCHANGED <<papers, rubrics, criteria, evaluations, feedback>>

\* A backend step that leaves a failed request where it was, to call again.
CallBackendAgain ==
    /\ last.result = "pending"
    /\ last.pc = "resolved"
    /\ LET explicit == last.req.model_response # None /\ Truthy(Get(last.req.model_response))
           answer == IF explicit
                     THEN [status |-> Ok, value |-> Get(last.req.model_response)]
                     ELSE AdapterEvaluate(get_adapter(None, last.req.settings),
                                          RubricDescriptor(last.req.rubric_id), last.req.outcome)
           calls == last.calls + (IF explicit THEN 0 ELSE 1)
       IN last' = IF answer.status = Ok
                  THEN [last EXCEPT !.pc = "answered", !.calls = calls, !.answer = answer.value]
                  ELSE [last EXCEPT !.calls = calls]
    /\ UNCHANGED store

\* "payload.model_response or adapter.evaluate(...)" inside the try: one call unless a
\* truthy response was supplied; an exception ends the request and closes the session.
CallBackend ==
    /\ last.result = "pending"
    /\ last.pc = "resolved"
    /\ LET explicit == last.req.model_response # None /\ Truthy(Get(last.req.model_response))
           answer == IF explicit
                     THEN [status |-> Ok, value |-> Get(last.req.model_response)]
                     ELSE AdapterEvaluate(get_adapter(None, last.req.settings),
                                          RubricDescriptor(last.req.rubric_id), last.req.outcome)
           calls == last.calls + (IF explicit THEN 0 ELSE 1)
       IN /\ last' = IF answer.status = Ok
                     THEN [last EXCEPT !.pc = "answered", !.calls = calls, !.answer = answer.value]
                     ELSE Request(last.op, last.req,
                                  IF answer.status = "RuntimeError"
                                  THEN BackendUnavailable ELSE ServerError, None, calls)
          /\ prompts' = IF answer.status = Ok THEN prompts
                        ELSE SessionClosed(prompts, last.db.prompts)
    /\ UNCHANGED <<papers, rubrics, criteria, evaluations, feedback>>

\* db.add(evaluation), the counter of the prompt, db.commit().
CommitEvaluation ==
    /\ last.result = "pending"
    /\ last.pc = "answered"
    /\ LET id == NewId(last.db.evaluations)
           row == [paper_id |-> last.req.paper_id, rubric_id |-> last.req.rubric_id,
                   prompt_id |-> Get(last.id), model_response |-> json_dumps(last.answer),
                   is_correct |-> None]
       IN /\ evaluations' = db_commit(evaluations, Put(last.db.evaluations, id, row))
          /\ prompts' = db_commit(prompts, [last.db.prompts EXCEPT
                                               ![Get(last.id)].total_evaluations = @ + 1])
          /\ last' = Request(last.op, last.req, Ok, Some(id), last.calls)
    /\ UNCHANGED <<papers, rubrics, criteria, feedback>>

NextSessions ==
    \/ Refuse
    \/ OpenPrompt
    \/ DeactivateOthers
    \/ CommitPrompt
    \/ OpenEvaluation
    \/ CallBackend
    \/ CommitEvaluation

SpecSessions == Init /\ [][NextSessions]_vars

(***************************************************************************)
(* Properties of the steps of a request.                                   *)
(***************************************************************************)
\* The step commits the session of a request.
Commits == last.result = "pending" /\ last'.result = Ok

C28_OneBackendCall ==
    [][last'.op = "create_evaluation" =>
         /\ last'.calls <= 1
         /\ last'.calls # (IF last.result = "pending" THEN last.calls ELSE 0) =>
               /\ last.result = "pending"
               /\ last.pc = "resolved"
               /\ last.req.paper_id \in papers
               /\ last.req.rubric_id \in DOMAIN rubrics
               /\ Get(last.id) \in DOMAIN last.db.prompts
               /\ last'.result \in {"pending", BackendUnavailable, ServerError}
               /\ last'.result # "pending" => store' = store
         /\ (last.result = "pending" /\ last.pc = "answered") =>
               /\ last'.result = Ok
               /\ DOMAIN evaluations \subseteq DOMAIN evaluations'
               /\ DOMAIN evaluations' \ DOMAIN evaluations = {Get(last'.id)}
               /\ create_evaluation(last'.req.paper_id, last'.req.rubric_id,
                                    last'.req.prompt_id, last'.req.model_response,
                                    last'.req.settings, last'.req.outcome)
         /\ evaluations' # evaluations => (last.result = "pending" /\ last.pc = "answered")]_vars

\* A request without a prompt id, in a store without prompts, has called the stub
\* once and holds its answer; the evaluation and the default prompt are not yet
\* committed.
C28_Witness ==
    /\ last.result = "pending"
    /\ last.op = "create_evaluation"
    /\ last.pc = "answered"
    /\ last.calls = 1
    /\ last.req.prompt_id = None
    /\ DOMAIN last.db.prompts = {1}
    /\ prompts = <<>>
    /\ evaluations = <<>>

====
